---------------------------- MODULE Spec2Model ----------------------------
(***************************************************************************)
(* Target DILI risk score pipeline (rohitium/target-dili-risk-score).      *)
(*                                                                         *)
(* A drug name is a sequence of one-character strings.  Tables are         *)
(* sequences of records (a DataFrame's rows in row order) or functions     *)
(* keyed by the index (a DataFrame indexed by target).  Real numbers are   *)
(* exact fractions <<numerator, denominator>> with denominator > 0.        *)
(***************************************************************************)
EXTENDS Integers, Sequences, FiniteSets, TLC

VARIABLES
    \* normalize_drug_name applied once and twice
    name, normalized, renormalized, npc,
    \* match_fda_to_opentargets_drugs_serial: arguments, the two lookup
    \* dictionaries, the loop position, the locals of the last iteration,
    \* the result, and the iteration order this process gives each set of
    \* variations (list(set(...)))
    fda_drugs, ot_drugs, threshold,
    ot_variations_dict, ot_normalized_dict,
    mi, best_match, best_score, tier, matches, set_order, mpc,
    \* match_fda_to_opentargets_drugs_parallel on the same arguments: its own
    \* lookup dictionaries, the chunks, what pool.map returned, the result
    n_jobs, par_variations_dict, par_normalized_dict, chunk_size, fda_chunks,
    chunk_results, par_matches, ppc,
    \* create_drug_target_mapping: the FDA DILIrank table, the OpenTargets
    \* drug-target table, the matches argument, the returned table
    fda_dilirank_df, ot_drug_target_df, drug_matches, clean_mapping_df, cpc,
    \* DirectEvidenceComputer.compute_direct_dili_evidence: the drug-target
    \* table, its deduplicated copy, the returned table indexed by target
    drug_target_df, drug_target_dedup, direct_evidence, epc,
    \* NetworkScorer.compute_network_guilt_by_association: the network table,
    \* whether data/processed/target_mapping.parquet exists, its content
    network_df, mapping_exists, mapping_df, kpc,
    \* The table NetworkScorer returns and RiskCalculator is given and adds
    \* its columns to; RiskCalculator's alpha
    combined_scores, alpha, rpc,
    \* main(): the files under data/ and results/, where main is, the stages it
    \* has started, and the steps that returned an empty or absent result
    files, main_pc, stages_started, absent_results,
    \* The validation: the drug-target table and its optional columns, the
    \* risk scores indexed by target, the rates per target and the joined
    \* table
    val_columns, val_df, risk_scores, approval_rates, withdrawal_rates,
    validation_df, vpc,
    \* The qualitative lines of the validation report file, by correlation
    \* (empty while no report is written)
    report

normVars == <<name, normalized, renormalized, npc>>

matchArgs == <<fda_drugs, ot_drugs, threshold>>

serialVars == <<ot_variations_dict, ot_normalized_dict, mi, best_match,
                best_score, tier, matches, set_order, mpc>>

parVars == <<n_jobs, par_variations_dict, par_normalized_dict, chunk_size,
             fda_chunks, chunk_results, par_matches, ppc>>

matchVars == <<matchArgs, serialVars, parVars>>

mapVars == <<fda_dilirank_df, ot_drug_target_df, drug_matches, clean_mapping_df, cpc>>

evidenceVars == <<drug_target_df, drug_target_dedup, direct_evidence, epc>>

tableVars == <<mapVars, evidenceVars>>

networkVars == <<network_df, mapping_exists, mapping_df, kpc>>

riskVars == <<combined_scores, alpha, rpc>>

scoreVars == <<networkVars, riskVars>>

pipeVars == <<files, main_pc, stages_started, absent_results>>

validationVars == <<val_columns, val_df, risk_scores, approval_rates,
                    withdrawal_rates, validation_df, vpc, report>>

otherVars == <<pipeVars, validationVars>>

\* What the name functions leave alone, what the table functions do, and what
\* the scoring functions do
notNames == <<tableVars, scoreVars, otherVars>>

notTables == <<normVars, matchVars, scoreVars, otherVars>>

notScores == <<normVars, matchVars, tableVars, otherVars>>

\* What main and the validation leave alone
notOthers == <<normVars, matchVars, tableVars, scoreVars>>

vars == <<normVars, matchVars, tableVars, scoreVars, otherVars>>

-----------------------------------------------------------------------------
(* Generic helpers                                                         *)

Min(S) == CHOOSE x \in S : \A y \in S : x <= y

Max(S) == CHOOSE x \in S : \A y \in S : x >= y

RECURSIVE Flatten(_)
Flatten(ss) == IF ss = <<>> THEN <<>> ELSE Head(ss) \o Flatten(Tail(ss))

\* All sequences over S of length 0..n
SeqsUpTo(S, n) == UNION {[1..k -> S] : k \in 0..n}

-----------------------------------------------------------------------------
(* Characters: Python's str.lower, \w, \s                                  *)

LowerLetters == {"a","b","c","d","e","f","g","h","i","j","k","l","m",
                 "n","o","p","q","r","s","t","u","v","w","x","y","z"}

UpperToLower == [A |-> "a", B |-> "b", C |-> "c", D |-> "d", E |-> "e",
                 F |-> "f", G |-> "g", H |-> "h", I |-> "i", J |-> "j",
                 K |-> "k", L |-> "l", M |-> "m", N |-> "n", O |-> "o",
                 P |-> "p", Q |-> "q", R |-> "r", S |-> "s", T |-> "t",
                 U |-> "u", V |-> "v", W |-> "w", X |-> "x", Y |-> "y",
                 Z |-> "z"]

UpperLetters == DOMAIN UpperToLower

Digits == {"0","1","2","3","4","5","6","7","8","9"}

\* regex \w
IsWordChar(c) == c \in LowerLetters \cup UpperLetters \cup Digits \cup {"_"}

\* regex \s, str.strip
IsSpace(c) == c \in {" ", "\t"}

LowerChar(c) == IF c \in UpperLetters THEN UpperToLower[c] ELSE c

\* str.lower()
Lower(s) == [i \in 1..Len(s) |-> LowerChar(s[i])]

RECURSIVE LStrip(_)
LStrip(s) == IF s # <<>> /\ IsSpace(Head(s)) THEN LStrip(Tail(s)) ELSE s

RECURSIVE RStrip(_)
RStrip(s) ==
    IF s # <<>> /\ IsSpace(s[Len(s)]) THEN RStrip(SubSeq(s, 1, Len(s) - 1)) ELSE s

\* str.strip()
Strip(s) == RStrip(LStrip(s))

-----------------------------------------------------------------------------
(* normalize_drug_name (utils/drug_matching.py)                            *)

w_hcl           == <<"h","c","l">>
w_hydrochloride == <<"h","y","d","r","o","c","h","l","o","r","i","d","e">>
w_sulfate       == <<"s","u","l","f","a","t","e">>
w_citrate       == <<"c","i","t","r","a","t","e">>
w_phosphate     == <<"p","h","o","s","p","h","a","t","e">>
w_acetate       == <<"a","c","e","t","a","t","e">>
w_sodium        == <<"s","o","d","i","u","m">>
w_potassium     == <<"p","o","t","a","s","s","i","u","m">>
w_calcium       == <<"c","a","l","c","i","u","m">>
w_magnesium     == <<"m","a","g","n","e","s","i","u","m">>
w_monohydrate   == <<"m","o","n","o","h","y","d","r","a","t","e">>
w_dihydrate     == <<"d","i","h","y","d","r","a","t","e">>
w_trihydrate    == <<"t","r","i","h","y","d","r","a","t","e">>
w_hemihydrate   == <<"h","e","m","i","h","y","d","r","a","t","e">>
w_sesquihydrate == <<"s","e","s","q","u","i","h","y","d","r","a","t","e">>

\* The five patterns, each the ordered alternatives of one \b(...)\b
suffixes == <<
    <<w_hcl, w_hydrochloride, w_sulfate, w_citrate, w_phosphate, w_acetate,
      w_sodium, w_potassium, w_calcium, w_magnesium>>,
    <<w_hydrochloride, w_sulfate, w_citrate, w_phosphate, w_acetate>>,
    <<w_sodium, w_potassium, w_calcium, w_magnesium>>,
    <<w_monohydrate, w_dihydrate, w_trihydrate>>,
    <<w_hemihydrate, w_sesquihydrate>> >>

\* regex \b at the gap before position i (1..Len(s)+1)
WordBoundary(s, i) ==
    LET before == i > 1 /\ IsWordChar(s[i - 1])
        after  == i <= Len(s) /\ IsWordChar(s[i])
    IN before # after

MatchAt(s, i, w) ==
    /\ i + Len(w) - 1 <= Len(s)
    /\ SubSeq(s, i, i + Len(w) - 1) = w

\* re.sub(r'\b(w1|w2|...)\b', '', s), scanning from position i: the leftmost
\* match is deleted (first alternative that matches with both boundaries) and
\* the scan resumes after it.
RECURSIVE SubWordsFrom(_, _, _)
SubWordsFrom(s, i, alts) ==
    IF i > Len(s) THEN <<>>
    ELSE LET hits == IF WordBoundary(s, i)
                     THEN {k \in 1..Len(alts) :
                              /\ MatchAt(s, i, alts[k])
                              /\ WordBoundary(s, i + Len(alts[k]))}
                     ELSE {}
         IN IF hits # {}
            THEN SubWordsFrom(s, i + Len(alts[Min(hits)]), alts)
            ELSE <<s[i]>> \o SubWordsFrom(s, i + 1, alts)

RECURSIVE RemoveSuffixes(_, _)
RemoveSuffixes(s, k) ==
    IF k > Len(suffixes) THEN s
    ELSE RemoveSuffixes(SubWordsFrom(s, 1, suffixes[k]), k + 1)

\* re.sub(r'\s+', ' ', s)
RECURSIVE CollapseSpaces(_)
CollapseSpaces(s) ==
    IF s = <<>> THEN <<>>
    ELSE IF IsSpace(Head(s))
         THEN <<" ">> \o CollapseSpaces(LStrip(s))
         ELSE <<Head(s)>> \o CollapseSpaces(Tail(s))

\* re.sub(r'[^\w\s]', '', s)
RemovePunctuation(s) == SelectSeq(s, LAMBDA c : IsWordChar(c) \/ IsSpace(c))

normalize_drug_name(s) ==
    IF s = <<>> THEN <<>>
    ELSE Strip(RemovePunctuation(CollapseSpaces(RemoveSuffixes(Strip(Lower(s)), 1))))

-----------------------------------------------------------------------------
(* Fractions: the scores and thresholds of the matcher and the scorer      *)

Abs(x) == IF x < 0 THEN -x ELSE x

RECURSIVE GCD(_, _)
GCD(a, b) == IF b = 0 THEN a ELSE GCD(b, a % b)

\* n/d in lowest terms (d > 0)
Frac(n, d) == <<n \div GCD(Abs(n), d), d \div GCD(Abs(n), d)>>

Zero == Frac(0, 1)

One == Frac(1, 1)

FEq(a, b) == a[1] * b[2] = b[1] * a[2]

FGe(a, b) == a[1] * b[2] >= b[1] * a[2]

FGt(a, b) == a[1] * b[2] > b[1] * a[2]

FLe(a, b) == FGe(b, a)

\* The orders in which a set can be iterated
Orders(S) == {p \in [1..Cardinality(S) -> S] : \A i, j \in DOMAIN p : p[i] = p[j] => i = j}

-----------------------------------------------------------------------------
(* The names the matching runs draw from, and what normalize_drug_name     *)
(* gives for each (evaluated once)                                         *)

n_acetaminophen == <<"a","c","e","t","a","m","i","n","o","p","h","e","n">>
n_paracetamol   == <<"p","a","r","a","c","e","t","a","m","o","l">>
n_aspirin       == <<"a","s","p","i","r","i","n">>
n_acetylsalicylic_acid ==
    <<"a","c","e","t","y","l","s","a","l","i","c","y","l","i","c"," ","a","c","i","d">>
n_ibuprofen     == <<"i","b","u","p","r","o","f","e","n">>
n_advil         == <<"a","d","v","i","l">>

Acetaminophen == <<"A","c","e","t","a","m","i","n","o","p","h","e","n">>

acetaminophen_hcl ==
    <<"a","c","e","t","a","m","i","n","o","p","h","e","n"," ","h","c","l">>

SourceNames == {
    Acetaminophen,
    <<"A","d","v","i","l"," ","h","c","l">>,
    <<"a","b","c","d">>,
    <<"M","a","g","n","e","s","i","u","m"," ","s","u","l","f","a","t","e">> }

CandidateNames == {
    acetaminophen_hcl,
    <<"A","d","v","i","l">>,
    <<"a","d","v","i","l"," ","h","c","l">>,
    <<"a","b","c","e">>,
    <<"a","b","c","d","e">>,
    <<"S","o","d","i","u","m"," ","c","i","t","r","a","t","e">>,
    n_paracetamol }

NormalizedNames == [n \in SourceNames \cup CandidateNames |-> normalize_drug_name(n)]

Normalized(n) == NormalizedNames[n]

-----------------------------------------------------------------------------
(* create_drug_name_variations                                             *)

common_abbrevs ==
    (n_acetaminophen :> n_paracetamol) @@ (n_paracetamol :> n_acetaminophen) @@
    (n_aspirin :> n_acetylsalicylic_acid) @@ (n_acetylsalicylic_acid :> n_aspirin) @@
    (n_ibuprofen :> n_advil) @@ (n_advil :> n_ibuprofen)

\* The set behind list(set(variations)); its iteration order is the caller's
\* set_order.
create_drug_name_variations(drug_name) ==
    {drug_name}
    \cup {normalized_name \in {Normalized(drug_name)} : normalized_name # Lower(drug_name)}
    \cup (IF Lower(drug_name) \in DOMAIN common_abbrevs
          THEN {common_abbrevs[Lower(drug_name)]} ELSE {})

-----------------------------------------------------------------------------
(* difflib.SequenceMatcher(None, a, b).ratio(), no junk (names are far     *)
(* shorter than the 200 characters at which autojunk starts)               *)

\* Length of the longest common run starting at a[i], b[j] within the windows
RECURSIVE RunLength(_, _, _, _, _, _)
RunLength(a, b, i, j, ahi, bhi) ==
    IF i < ahi /\ j < bhi /\ a[i] = b[j]
    THEN 1 + RunLength(a, b, i + 1, j + 1, ahi, bhi)
    ELSE 0

\* find_longest_match(alo, ahi, blo, bhi) over a[alo..ahi-1], b[blo..bhi-1]:
\* the longest block, of those the one starting earliest in a, of those the
\* one starting earliest in b; <<alo, blo, 0>> when nothing matches.
find_longest_match(a, b, alo, ahi, blo, bhi) ==
    LET blocks == {<<i, j, RunLength(a, b, i, j, ahi, bhi)>> :
                       i \in alo..(ahi - 1), j \in blo..(bhi - 1)}
        real   == {m \in blocks : m[3] > 0}
    IN IF real = {} THEN <<alo, blo, 0>>
       ELSE LET k  == Max({m[3] : m \in real})
                i0 == Min({m[1] : m \in {x \in real : x[3] = k}})
                j0 == Min({m[2] : m \in {x \in real : x[3] = k /\ x[1] = i0}})
            IN <<i0, j0, k>>

\* Sum of the sizes of get_matching_blocks(): the longest block, then the
\* pieces to its left and to its right.
RECURSIVE MatchingSize(_, _, _, _, _, _)
AroundBlock(a, b, alo, ahi, blo, bhi, i, j, k) ==
    IF k = 0 THEN 0
    ELSE k
         + (IF alo < i /\ blo < j THEN MatchingSize(a, b, alo, i, blo, j) ELSE 0)
         + (IF i + k < ahi /\ j + k < bhi
            THEN MatchingSize(a, b, i + k, ahi, j + k, bhi) ELSE 0)

BlockAndRest(a, b, alo, ahi, blo, bhi, m) ==
    AroundBlock(a, b, alo, ahi, blo, bhi, m[1], m[2], m[3])

MatchingSize(a, b, alo, ahi, blo, bhi) ==
    BlockAndRest(a, b, alo, ahi, blo, bhi, find_longest_match(a, b, alo, ahi, blo, bhi))

\* ratio() = 2.0 * matches / (len(a) + len(b)), 1.0 for two empty strings
SequenceMatcherRatio(a, b) ==
    IF Len(a) + Len(b) = 0 THEN One
    ELSE Frac(2 * MatchingSize(a, b, 1, Len(a) + 1, 1, Len(b) + 1), Len(a) + Len(b))

\* The ratios of the runs' names (evaluated once)
Ratios ==
    [p \in {NormalizedNames[n] : n \in DOMAIN NormalizedNames} \X {NormalizedNames[n] : n \in DOMAIN NormalizedNames}
        |-> SequenceMatcherRatio(p[1], p[2])]

Similarity(a, b) == Ratios[<<a, b>>]

-----------------------------------------------------------------------------
(* match_fda_to_opentargets_drugs_serial                                   *)

\* Python's None: not a name (names hold one-character strings)
None == <<"<None>">>

EmptyDict == [k \in {} |-> None]

\* d[k] = v for every k in keys
DictPut(d, keys, v) ==
    [k \in DOMAIN d \cup keys |-> IF k \in keys THEN v ELSE d[k]]

\* Lines 273-280: after the loop over ot_drugs[1..n], the lower-cased
\* variations of each candidate map to the candidate that wrote them last.
RECURSIVE VariationsDict(_, _)
VariationsDict(ots, n) ==
    IF n = 0 THEN EmptyDict
    ELSE DictPut(VariationsDict(ots, n - 1),
                 {Lower(v) : v \in create_drug_name_variations(ots[n])},
                 ots[n])

RECURSIVE NormalizedDict(_, _)
NormalizedDict(ots, n) ==
    IF n = 0 THEN EmptyDict
    ELSE DictPut(NormalizedDict(ots, n - 1), {Normalized(ots[n])}, ots[n])

\* Lines 311-331: the fuzzy scan from candidate j on, with the running best.
RECURSIVE FuzzyScan(_, _, _, _, _)
\* Lines 325-331 for candidate j with its similarity
FuzzyBetter(fda_normalized, ots, j, bm, bs, similarity) ==
    IF FGt(similarity, bs)
    THEN IF FGe(similarity, Frac(19, 20))
         THEN [match |-> ots[j], score |-> similarity]
         ELSE FuzzyScan(fda_normalized, ots, j + 1, ots[j], similarity)
    ELSE FuzzyScan(fda_normalized, ots, j + 1, bm, bs)

\* Lines 316-323 for candidate j with its normalized name
FuzzyCandidate(fda_normalized, ots, j, bm, bs, ot_normalized) ==
    IF Abs(Len(fda_normalized) - Len(ot_normalized)) > 5
    THEN FuzzyScan(fda_normalized, ots, j + 1, bm, bs)
    ELSE FuzzyBetter(fda_normalized, ots, j, bm, bs,
                     Similarity(fda_normalized, ot_normalized))

FuzzyScan(fda_normalized, ots, j, bm, bs) ==
    IF j > Len(ots) \/ FGe(bs, Frac(99, 100)) THEN [match |-> bm, score |-> bs]
    ELSE FuzzyCandidate(fda_normalized, ots, j, bm, bs, Normalized(ots[j]))

\* Lines 288-331 for one source name, its variations iterated in `order`:
\* the exact step, else the normalized-exact step, else the fuzzy scan.
\* tier records which step assigned best_match.
FuzzyResult(f) ==
    [match |-> f.match, score |-> f.score,
     tier |-> IF f.match = None THEN "none" ELSE "fuzzy"]

\* The same without the exact step (lines 296-301)
MatchOneFromNormalized(fda_normalized, order, vdict, ndict, ots) ==
    IF fda_normalized \in DOMAIN ndict
    THEN [match |-> ndict[fda_normalized], score |-> One, tier |-> "normalized"]
    ELSE FuzzyResult(FuzzyScan(fda_normalized, ots, 1, None, Zero))

MatchOne(fda_normalized, order, vdict, ndict, ots) ==
    LET hits == {i \in DOMAIN order : Lower(order[i]) \in DOMAIN vdict}
    IN IF hits # {}
       THEN [match |-> vdict[Lower(order[Min(hits)])], score |-> One, tier |-> "exact"]
       ELSE IF fda_normalized \in DOMAIN ndict
            THEN [match |-> ndict[fda_normalized], score |-> One, tier |-> "normalized"]
            ELSE FuzzyResult(FuzzyScan(fda_normalized, ots, 1, None, Zero))

\* An insertion-ordered dict as a sequence of <<key, value>>
DictKeys(d) == {d[i][1] : i \in DOMAIN d}

DictGet(d, k) == d[CHOOSE i \in DOMAIN d : d[i][1] = k][2]

\* d[k] = v: a new key goes last, an old key keeps its place
DictSet(d, k, v) ==
    IF k \in DictKeys(d)
    THEN [i \in DOMAIN d |-> IF d[i][1] = k THEN <<k, v>> ELSE d[i]]
    ELSE Append(d, <<k, v>>)

-----------------------------------------------------------------------------
(* Bounds and inputs                                                       *)

MaxPieces == 4

MaxSources == 2

MaxCandidates == 2

MaxJobs == 3

Pieces == { <<"a">>, <<"h">>, <<"c">>, <<"l">>, <<"H">>, <<"1">>,
            <<" ">>, <<".">>, <<"-">>, w_sulfate, w_dihydrate }

NormInputs == { Flatten(ps) : ps \in SeqsUpTo(Pieces, MaxPieces) }

Thresholds == {Zero, Frac(4, 5), One}

\* n_jobs: a worker count, or -1 for all CPUs
JobCounts == {-1} \cup (1..MaxJobs)

\* What mp.cpu_count() can return
CpuCounts == 1..MaxJobs

-----------------------------------------------------------------------------
(* The state before anything is called                                     *)

IdleNorm ==
    /\ name = <<>>
    /\ normalized = <<>>
    /\ renormalized = <<>>
    /\ npc = "idle"

IdleSerial ==
    /\ ot_variations_dict = EmptyDict
    /\ ot_normalized_dict = EmptyDict
    /\ mi = 0
    /\ best_match = None
    /\ best_score = Zero
    /\ tier = "none"
    /\ matches = <<>>
    /\ set_order = EmptyDict

IdlePar ==
    /\ par_variations_dict = EmptyDict
    /\ par_normalized_dict = EmptyDict
    /\ chunk_size = 0
    /\ fda_chunks = <<>>
    /\ chunk_results = <<>>
    /\ par_matches = <<>>
    /\ ppc = "idle"

IdleMatch ==
    /\ fda_drugs = <<>>
    /\ ot_drugs = <<>>
    /\ threshold = Frac(4, 5)
    /\ n_jobs = -1
    /\ IdleSerial
    /\ mpc = "idle"
    /\ IdlePar

IdleMap ==
    /\ fda_dilirank_df = <<>>
    /\ ot_drug_target_df = <<>>
    /\ drug_matches = <<>>
    /\ clean_mapping_df = <<>>
    /\ cpc = "idle"

IdleEvidence ==
    /\ drug_target_df = <<>>
    /\ drug_target_dedup = <<>>
    /\ direct_evidence = <<>>
    /\ epc = "idle"

IdleTables == IdleMap /\ IdleEvidence

IdleNetwork ==
    /\ network_df = <<>>
    /\ mapping_exists = FALSE
    /\ mapping_df = <<>>
    /\ kpc = "idle"

IdleRisk ==
    /\ combined_scores = <<>>
    /\ alpha = Zero
    /\ rpc = "idle"

IdleScores == IdleNetwork /\ IdleRisk

IdlePipeline ==
    /\ files = <<>>
    /\ main_pc = "idle"
    /\ stages_started = <<>>
    /\ absent_results = {}

IdleValidation ==
    /\ val_columns = {}
    /\ val_df = <<>>
    /\ risk_scores = <<>>
    /\ approval_rates = <<>>
    /\ withdrawal_rates = <<>>
    /\ validation_df = <<>>
    /\ vpc = "idle"
    /\ report = <<>>

IdleOthers == IdlePipeline /\ IdleValidation

-----------------------------------------------------------------------------
(* normalize_drug_name, applied to a name and again to its result          *)

InitNorm ==
    /\ IdleOthers
    /\ name \in NormInputs
    /\ normalized = <<>>
    /\ renormalized = <<>>
    /\ npc = "start"
    /\ IdleMatch
    /\ IdleTables
    /\ IdleScores

\* normalized = normalize_drug_name(name)
Normalize ==
    /\ npc = "start"
    /\ normalized' = normalize_drug_name(name)
    /\ npc' = "once"
    /\ UNCHANGED <<name, renormalized, matchVars, notNames>>

\* normalize_drug_name(normalize_drug_name(name))
Renormalize ==
    /\ npc = "once"
    /\ renormalized' = normalize_drug_name(normalized)
    /\ npc' = "twice"
    /\ UNCHANGED <<name, normalized, matchVars, notNames>>

NextNorm == Normalize \/ Renormalize

SpecNorm == InitNorm /\ [][NextNorm]_vars

-----------------------------------------------------------------------------
(* match_fda_to_opentargets_drugs_serial(fda_drugs, ot_drugs, threshold)   *)

InitMatchArgs ==
    /\ fda_drugs \in SeqsUpTo(SourceNames, MaxSources)
    /\ ot_drugs \in SeqsUpTo(CandidateNames, MaxCandidates)
    /\ threshold \in Thresholds

InitMatch ==
    /\ IdleOthers
    /\ IdleNorm
    /\ InitMatchArgs
    /\ IdleSerial
    /\ mpc = "start"
    /\ n_jobs = -1
    /\ IdlePar
    /\ IdleTables
    /\ IdleScores

\* Lines 268-285: pre-compute the two lookups over all candidates
SerialPrecompute ==
    /\ mpc = "start"
    /\ ot_variations_dict' = VariationsDict(ot_drugs, Len(ot_drugs))
    /\ ot_normalized_dict' = NormalizedDict(ot_drugs, Len(ot_drugs))
    /\ matches' = <<>>
    /\ mi' = 1
    /\ mpc' = "loop"
    /\ UNCHANGED <<best_match, best_score, tier, set_order>>
    /\ UNCHANGED <<normVars, matchArgs, parVars, notNames>>

\* Lines 287-339: one iteration of `for fda_drug in fda_drugs`.  The list
\* built from the set of variations comes in an order this process fixes per
\* set (it depends on the string hashes); a name seen before keeps its order.
SerialMatch ==
    /\ mpc = "loop"
    /\ mi <= Len(fda_drugs)
    /\ LET fda_drug == fda_drugs[mi]
       IN \E order \in Orders(create_drug_name_variations(fda_drug)) :
            /\ fda_drug \in DOMAIN set_order => order = set_order[fda_drug]
            /\ set_order' = DictPut(set_order, {fda_drug}, order)
            /\ \E r \in {MatchOne(Normalized(fda_drug), order, ot_variations_dict,
                                   ot_normalized_dict, ot_drugs)} :
                  /\ best_match' = r.match
                  /\ best_score' = r.score
                  /\ tier' = r.tier
                  /\ matches' = IF FGe(r.score, threshold)
                                THEN DictSet(matches, fda_drug, r.match)
                                ELSE matches
    /\ mi' = mi + 1
    /\ UNCHANGED <<ot_variations_dict, ot_normalized_dict, mpc>>
    /\ UNCHANGED <<normVars, matchArgs, parVars, notNames>>

\* Lines 341-344: the loop is over, return matches
SerialReturn ==
    /\ mpc = "loop"
    /\ mi > Len(fda_drugs)
    /\ mpc' = "done"
    /\ UNCHANGED <<ot_variations_dict, ot_normalized_dict, mi, best_match,
                   best_score, tier, matches, set_order>>
    /\ UNCHANGED <<normVars, matchArgs, parVars, notNames>>

NextMatch == SerialPrecompute \/ SerialMatch \/ SerialReturn

SpecMatch == InitMatch /\ [][NextMatch]_vars

-----------------------------------------------------------------------------
(* match_fda_to_opentargets_drugs_parallel(fda_drugs, ot_drugs, threshold, *)
(* n_jobs), called after the serial matcher has returned                   *)

\* Python's a // b for a >= 0 and b # 0 (rounds towards minus infinity)
FloorDiv(a, b) ==
    IF b > 0 THEN a \div b ELSE -((a + (-b) - 1) \div (-b))

\* Line 148: [fda_drugs[i:i + size] for i in range(0, len(fda_drugs), size)]
Chunks(drugs, size) ==
    [c \in 1..((Len(drugs) + size - 1) \div size) |->
        SubSeq(drugs, (c - 1) * size + 1, Min({c * size, Len(drugs)}))]

\* Lines 215-229: the loop over results[1..n], each <<fda_drug, best_match,
\* best_score>>
RECURSIVE Collect(_, _, _)
Collect(results, n, tau) ==
    IF n = 0 THEN <<>>
    ELSE IF FGe(results[n][3], tau)
         THEN DictSet(Collect(results, n - 1, tau), results[n][1], results[n][2])
         ELSE Collect(results, n - 1, tau)

InitPar ==
    /\ IdleOthers
    /\ IdleNorm
    /\ InitMatchArgs
    /\ IdleSerial
    /\ mpc = "start"
    /\ n_jobs \in JobCounts
    /\ par_variations_dict = EmptyDict
    /\ par_normalized_dict = EmptyDict
    /\ chunk_size = 0
    /\ fda_chunks = <<>>
    /\ chunk_results = <<>>
    /\ par_matches = <<>>
    /\ ppc = "start"
    /\ IdleTables
    /\ IdleScores

\* Lines 129-141: pre-compute the two lookups over all candidates
ParPrecompute ==
    /\ mpc = "done"
    /\ ppc = "start"
    /\ par_variations_dict' = VariationsDict(ot_drugs, Len(ot_drugs))
    /\ par_normalized_dict' = NormalizedDict(ot_drugs, Len(ot_drugs))
    /\ ppc' = "split"
    /\ UNCHANGED <<n_jobs, chunk_size, fda_chunks, chunk_results, par_matches>>
    /\ UNCHANGED <<normVars, matchArgs, serialVars, notNames>>

\* Lines 147-148: chunk_size from the n_jobs argument as passed (-1 included),
\* then the chunks
ParSplit ==
    /\ ppc = "split"
    /\ chunk_size' = Max({1, FloorDiv(Len(fda_drugs), n_jobs)})
    /\ fda_chunks' = Chunks(fda_drugs, chunk_size')
    /\ ppc' = "jobs"
    /\ UNCHANGED <<n_jobs, par_variations_dict, par_normalized_dict,
                   chunk_results, par_matches>>
    /\ UNCHANGED <<normVars, matchArgs, serialVars, notNames>>

\* Lines 202-203: n_jobs = mp.cpu_count() when it was -1
ParSetJobs ==
    /\ ppc = "jobs"
    /\ IF n_jobs = -1 THEN n_jobs' \in CpuCounts ELSE n_jobs' = n_jobs
    /\ ppc' = "pool"
    /\ UNCHANGED <<par_variations_dict, par_normalized_dict, chunk_size,
                   fda_chunks, chunk_results, par_matches>>
    /\ UNCHANGED <<normVars, matchArgs, serialVars, notNames>>

\* Lines 206-207: pool.map(process_chunk, fda_chunks).  Every task carries
\* the function to the workers pickled, and process_chunk is local to the
\* call (line 150), which pickle rejects: with at least one chunk the call
\* raises AttributeError (Can't pickle local object) and nothing is returned.
\* With no chunk there is no task and the result is the empty list.
ParPoolMap ==
    /\ ppc = "pool"
    /\ IF fda_chunks = <<>>
       THEN /\ chunk_results' = <<>>
            /\ ppc' = "mapped"
       ELSE /\ chunk_results' = chunk_results
            /\ ppc' = "raised"
    /\ UNCHANGED <<n_jobs, par_variations_dict, par_normalized_dict, chunk_size,
                   fda_chunks, par_matches>>
    /\ UNCHANGED <<normVars, matchArgs, serialVars, notNames>>

\* Lines 209-234: flatten the chunk results, collect those at or above the
\* threshold, return matches
ParCollect ==
    /\ ppc = "mapped"
    /\ par_matches' = Collect(Flatten(chunk_results), Len(Flatten(chunk_results)),
                              threshold)
    /\ ppc' = "returned"
    /\ UNCHANGED <<n_jobs, par_variations_dict, par_normalized_dict, chunk_size,
                   fda_chunks, chunk_results>>
    /\ UNCHANGED <<normVars, matchArgs, serialVars, notNames>>

NextPar ==
    \/ SerialPrecompute \/ SerialMatch \/ SerialReturn
    \/ ParPrecompute \/ ParSplit \/ ParSetJobs \/ ParPoolMap \/ ParCollect

SpecPar == InitPar /\ [][NextPar]_vars

-----------------------------------------------------------------------------
(* Tables: DataFrames as sequences of records, in row order                *)

\* Missing values: a missing label, and the float nan (0/0) and inf (1/0)
NaNLabel == "nan"

NaN == <<0, 0>>

Inf == <<1, 0>>

IsNaN(x) == x = NaN

FAdd(a, b) ==
    IF IsNaN(a) \/ IsNaN(b) THEN NaN
    ELSE Frac(a[1] * b[2] + b[1] * a[2], a[2] * b[2])

\* a / b as pandas divides float columns: nan propagates, 0/0 is nan, x/0 is
\* inf (operands are never negative here)
FDiv(a, b) ==
    IF IsNaN(a) \/ IsNaN(b) THEN NaN
    ELSE IF b[1] = 0 THEN (IF a[1] = 0 THEN NaN ELSE Inf)
    ELSE IF a = Inf THEN Inf
    ELSE Frac(a[1] * b[2], a[2] * b[1])

\* No fillna
KeepNa(x) == x

\* Series.fillna(0)
FillNa0(x) == IF IsNaN(x) THEN Zero ELSE x

\* The rows of df whose positions are in keep, in row order
RECURSIVE RowsAt(_, _, _)
RowsAt(df, keep, n) ==
    IF n = 0 THEN <<>>
    ELSE IF n \in keep THEN Append(RowsAt(df, keep, n - 1), df[n])
    ELSE RowsAt(df, keep, n - 1)

\* df.drop_duplicates(subset=..., keep='last'), keys[i] being the subset
\* columns of row i: a row stays when no later row has its key
DropDuplicatesKeepLast(df, keys) ==
    RowsAt(df, {i \in DOMAIN df : \A j \in (i + 1)..Len(df) : keys[j] # keys[i]},
           Len(df))

\* df.drop_duplicates(subset=..., keep='first'), keys[i] being the subset
\* columns of row i: a row stays when no earlier row has its key
DropDuplicates(df, keys) ==
    RowsAt(df, {i \in DOMAIN df : \A j \in 1..(i - 1) : keys[j] # keys[i]},
           Len(df))

-----------------------------------------------------------------------------
(* create_drug_target_mapping(fda_dilirank_df, ot_drug_target_df, matches) *)

FdaNames == {"Aspirin", "Ibuprofen"}

OtNames == {"ASPIRIN", "IBUPROFEN"}

Targets == {"PTGS1", "PTGS2"}

\* vDILIConcern: the four classes of the weight table and one label outside it
Concerns == {"Most-DILI-Concern", "Less-DILI-Concern", "No-DILI-Concern",
             "Ambiguous-DILI-Concern", "Withdrawn"}

Phases == {1, 2}

\* Lines 411-416
severity_weights ==
    [c \in {"Most-DILI-Concern", "Less-DILI-Concern", "No-DILI-Concern",
            "Ambiguous-DILI-Concern"} |->
        CASE c = "Most-DILI-Concern" -> Frac(2, 1)
          [] c = "Less-DILI-Concern" -> Frac(1, 1)
          [] c = "No-DILI-Concern" -> Frac(0, 1)
          [] c = "Ambiguous-DILI-Concern" -> Frac(1, 2)]

\* Lines 418-420: .map(severity_weights).fillna(0)
SeverityWeight(concern) ==
    IF concern \in DOMAIN severity_weights THEN severity_weights[concern] ELSE Zero

\* Line 386: {v: k for k, v in matches.items()}, a later item overwriting an
\* earlier one with the same value
RECURSIVE reverse_matches(_, _)
reverse_matches(m, n) ==
    IF n = 0 THEN EmptyDict
    ELSE DictPut(reverse_matches(m, n - 1), {m[n][2]}, m[n][1])

\* Lines 389-393: the rows of matched drugs, with the FDA name added
AddFdaName(row, reverse) ==
    [drug_name |-> row.drug_name, target_symbol |-> row.target_symbol,
     phase |-> row.phase, fda_drug_name |-> reverse[row.drug_name]]

FilteredOt(ot_df, reverse) ==
    LET matched == SelectSeq(ot_df, LAMBDA row : row.drug_name \in DOMAIN reverse)
    IN [i \in DOMAIN matched |-> AddFdaName(matched[i], reverse)]

\* Lines 404-420: one row of the left merge on fda_drug_name, with its weight
MergedRow(left, concern) ==
    [drug_name |-> left.drug_name, target_symbol |-> left.target_symbol,
     phase |-> left.phase, fda_drug_name |-> left.fda_drug_name,
     fda_dili_concern |-> concern,
     dili_severity_weight |-> SeverityWeight(concern)]

\* The rows a left row gives: one per FDA row with its name, in FDA row order,
\* or one with a missing concern when there is none
MergedRowsOf(left, fda_df) ==
    LET hits == SelectSeq(fda_df, LAMBDA f : f.Compound_Name = left.fda_drug_name)
    IN IF hits = <<>> THEN << MergedRow(left, NaNLabel) >>
       ELSE [i \in DOMAIN hits |-> MergedRow(left, hits[i].vDILIConcern)]

MergeLeft(left_df, fda_df) ==
    Flatten([i \in DOMAIN left_df |-> MergedRowsOf(left_df[i], fda_df)])

\* Line 429: dedup_cols
MappingKey(row) == <<row.fda_drug_name, row.target_symbol>>

\* Lines 386-435
CleanMapping(fda_df, ot_df, m) ==
    LET merged_df == MergeLeft(FilteredOt(ot_df, reverse_matches(m, Len(m))), fda_df)
    IN DropDuplicates(merged_df, [i \in DOMAIN merged_df |-> MappingKey(merged_df[i])])

MaxFdaRows == 2

MaxOtRows == 2

FdaRows == [Compound_Name : FdaNames, vDILIConcern : Concerns]

OtRows == [drug_name : OtNames, target_symbol : Targets, phase : Phases]

\* The matches a matcher can return over these names: each FDA name at most
\* once, in any insertion order
MatchDicts ==
    {m \in SeqsUpTo(FdaNames \X OtNames, Cardinality(FdaNames)) :
        \A i, j \in DOMAIN m : m[i][1] = m[j][1] => i = j}

InitMap ==
    /\ IdleOthers
    /\ IdleNorm
    /\ IdleMatch
    /\ IdleEvidence
    /\ IdleScores
    /\ fda_dilirank_df \in SeqsUpTo(FdaRows, MaxFdaRows)
    /\ ot_drug_target_df \in SeqsUpTo(OtRows, MaxOtRows)
    /\ drug_matches \in MatchDicts
    /\ clean_mapping_df = <<>>
    /\ cpc = "start"

CreateDrugTargetMapping ==
    /\ cpc = "start"
    /\ clean_mapping_df' = CleanMapping(fda_dilirank_df, ot_drug_target_df, drug_matches)
    /\ cpc' = "done"
    /\ UNCHANGED <<fda_dilirank_df, ot_drug_target_df, drug_matches>>
    /\ UNCHANGED <<evidenceVars, notTables>>

-----------------------------------------------------------------------------
(* DirectEvidenceComputer.compute_direct_dili_evidence(drug_target_df)     *)

\* Line 31: subset
EvidenceKey(row) == <<row.fda_drug_name, row.ot_target_symbol>>

\* Series.sum() of dili_severity_weight over rows[1..n]
RECURSIVE SumWeight(_, _)
SumWeight(rows, n) ==
    IF n = 0 THEN Zero
    ELSE FAdd(SumWeight(rows, n - 1), rows[n].dili_severity_weight)

\* Series.nunique() of fda_drug_name
NUnique(rows) == Cardinality({rows[i].fda_drug_name : i \in DOMAIN rows})

RowsOfTarget(df, target) == SelectSeq(df, LAMBDA row : row.ot_target_symbol = target)

\* Lines 47-49: the Most-DILI-Concern rows
HighRisk(df) == SelectSeq(df, LAMBDA row : row.fda_dili_concern = "Most-DILI-Concern")

\* Only the targets that have a Most-DILI-Concern row
HighRiskKeys(df) ==
    {df[i].ot_target_symbol :
        i \in {k \in DOMAIN df : df[k].fda_dili_concern = "Most-DILI-Concern"}}

GroupKeys(df) == {df[i].ot_target_symbol : i \in DOMAIN df}

\* Line 51: the column assigned from high_risk_counts, a Series that has an
\* entry only for the targets with a Most-DILI-Concern row (fillna finds
\* nothing to fill in it); a target without entry gets nan on alignment
HighRiskDrugCount(dedup, target) ==
    IF target \in GroupKeys(HighRisk(dedup))
    THEN Frac(NUnique(RowsOfTarget(HighRisk(dedup), target)), 1)
    ELSE NaN

\* Lines 38-60: the row of one target
EvidenceRow(drug_count, total_dili_weight, high_risk_drug_count) ==
    [drug_count |-> drug_count,
     total_dili_weight |-> total_dili_weight,
     high_risk_drug_count |-> high_risk_drug_count,
     dili_risk_ratio |-> FillNa0(FDiv(high_risk_drug_count, Frac(drug_count, 1))),
     avg_dili_weight |-> FillNa0(FDiv(total_dili_weight, Frac(drug_count, 1)))]

EvidenceOf(rows, high_risk_drug_count) ==
    EvidenceRow(NUnique(rows), SumWeight(rows, Len(rows)), high_risk_drug_count)

DirectEvidence(dedup) ==
    [target \in GroupKeys(dedup) |->
        EvidenceOf(RowsOfTarget(dedup, target), HighRiskDrugCount(dedup, target))]

\* No drop_duplicates
NotDeduplicated(df) == df

\* Lines 30-33
Deduplicated(df) == DropDuplicates(df, [i \in DOMAIN df |-> EvidenceKey(df[i])])

MaxAssociations == 2

Drugs == {"Aspirin", "Ibuprofen"}

AssociationRow(drug, target, concern) ==
    [fda_drug_name |-> drug, ot_target_symbol |-> target,
     fda_dili_concern |-> concern, dili_severity_weight |-> SeverityWeight(concern)]

AssociationRows ==
    {AssociationRow(drug, target, concern) :
        drug \in Drugs, target \in Targets, concern \in Concerns}

InitEvidence ==
    /\ IdleOthers
    /\ IdleNorm
    /\ IdleMatch
    /\ IdleMap
    /\ IdleScores
    /\ drug_target_df \in SeqsUpTo(AssociationRows, MaxAssociations)
    /\ drug_target_dedup = <<>>
    /\ direct_evidence = <<>>
    /\ epc = "start"

ComputeDirectEvidence ==
    /\ epc = "start"
    /\ drug_target_dedup' = Deduplicated(drug_target_df)
    /\ direct_evidence' = DirectEvidence(drug_target_dedup')
    /\ epc' = "done"
    /\ UNCHANGED <<drug_target_df, mapVars, notTables>>

\* The same call on the table with one more row for a (drug, target) pair it
\* already holds
ComputeWithDuplicate ==
    /\ epc = "done"
    /\ Len(drug_target_df) <= MaxAssociations
    /\ \E i \in DOMAIN drug_target_df, concern \in Concerns :
          drug_target_df' =
              Append(drug_target_df,
                     AssociationRow(drug_target_df[i].fda_drug_name,
                                    drug_target_df[i].ot_target_symbol, concern))
    /\ drug_target_dedup' = Deduplicated(drug_target_df')
    /\ direct_evidence' = DirectEvidence(drug_target_dedup')
    /\ UNCHANGED <<epc, mapVars, notTables>>

NextEvidence == ComputeDirectEvidence \/ ComputeWithDuplicate

SpecEvidence == InitEvidence /\ [][NextEvidence]_vars

\* Either function, called on its own arguments
InitTables == InitMap \/ InitEvidence

NextTables == CreateDrugTargetMapping \/ ComputeDirectEvidence \/ ComputeWithDuplicate

SpecTables == InitTables /\ [][NextTables]_vars

-----------------------------------------------------------------------------
(* NetworkScorer.compute_network_guilt_by_association(direct_evidence,     *)
(* network_df)                                                             *)

MaxNetworkRows == 2

MaxMappingRows == 2

\* Pathway Commons node identifiers
PcTargets == {"P12345", "P67890"}

RiskTargetCounts == {1, 2}

NetworkRows == [target1 : PcTargets, n_risk_targets : RiskTargetCounts]

TargetMappingRows == [gene_symbol : Targets, pc_target : PcTargets]

\* Line 55: mapping_df[mapping_df['gene_symbol'] == target]['pc_target'].unique()
PcTargetsOf(mapping, target) ==
    {mapping[i].pc_target : i \in {k \in DOMAIN mapping : mapping[k].gene_symbol = target}}

\* Series.sum() of n_risk_targets over rows[1..n]
RECURSIVE SumRiskTargets(_, _)
SumRiskTargets(rows, n) ==
    IF n = 0 THEN 0 ELSE SumRiskTargets(rows, n - 1) + rows[n].n_risk_targets

\* The number of rows instead of their n_risk_targets
CountRows(network, pc_targets) ==
    Len(SelectSeq(network, LAMBDA row : row.target1 \in pc_targets))

\* Lines 59-65: the sum over the rows whose target1 is one of pc_targets, 0
\* when there is no such row
SumOfNetworkRows(network, pc_targets) ==
    SumRiskTargets(SelectSeq(network, LAMBDA row : row.target1 \in pc_targets),
                   Len(SelectSeq(network, LAMBDA row : row.target1 \in pc_targets)))

\* Lines 55-67
NeighborDiliScore(network, mapping, target) ==
    IF PcTargetsOf(mapping, target) # {}
    THEN SumOfNetworkRows(network, PcTargetsOf(mapping, target))
    ELSE 0

\* A row of direct_evidence with the network_dili_score column added
WithNetworkScore(row, score) ==
    [drug_count |-> row.drug_count,
     total_dili_weight |-> row.total_dili_weight,
     high_risk_drug_count |-> row.high_risk_drug_count,
     dili_risk_ratio |-> row.dili_risk_ratio,
     avg_dili_weight |-> row.avg_dili_weight,
     network_dili_score |-> Frac(score, 1)]

\* The drug-target tables whose direct evidence the scorer is given
ScoredAssociationRows ==
    {AssociationRow("Aspirin", target, concern) :
        target \in Targets, concern \in {"Most-DILI-Concern", "No-DILI-Concern"}}

\* After compute_direct_dili_evidence: the scorer is called with its result,
\* a network table, and the target mapping file present or not
InitNetwork ==
    /\ IdleOthers
    /\ IdleNorm
    /\ IdleMatch
    /\ IdleMap
    /\ drug_target_df \in SeqsUpTo(ScoredAssociationRows, MaxAssociations)
    /\ drug_target_dedup = Deduplicated(drug_target_df)
    /\ direct_evidence = DirectEvidence(drug_target_dedup)
    /\ epc = "done"
    /\ network_df \in SeqsUpTo(NetworkRows, MaxNetworkRows)
    /\ mapping_exists \in BOOLEAN
    /\ mapping_df \in SeqsUpTo(TargetMappingRows, MaxMappingRows)
    /\ ~mapping_exists => mapping_df = <<>>
    /\ kpc = "start"
    /\ IdleRisk

\* Lines 31-35 and 41-45: zero network scores
ZeroNetworkScores ==
    [target \in DOMAIN direct_evidence |-> WithNetworkScore(direct_evidence[target], 0)]

\* Lines 31-82.  With no target in direct_evidence the list of scores is
\* empty, the DataFrame built from it has no column, and set_index on line 74
\* raises KeyError.
ComputeNetworkScores ==
    /\ kpc = "start"
    /\ IF network_df = <<>> \/ ~mapping_exists
       THEN /\ combined_scores' = ZeroNetworkScores
            /\ kpc' = "done"
       ELSE IF DOMAIN direct_evidence = {}
       THEN /\ combined_scores' = combined_scores
            /\ kpc' = "raised"
       ELSE /\ combined_scores' =
                  [target \in DOMAIN direct_evidence |->
                      WithNetworkScore(direct_evidence[target],
                                       NeighborDiliScore(network_df, mapping_df, target))]
            /\ kpc' = "done"
    /\ UNCHANGED <<network_df, mapping_exists, mapping_df>>
    /\ UNCHANGED <<alpha, rpc>>
    /\ UNCHANGED notScores

NextNetwork == ComputeNetworkScores

SpecNetwork == InitNetwork /\ [][NextNetwork]_vars

-----------------------------------------------------------------------------
(* RiskCalculator(alpha).compute_final_risk_score(combined_scores)         *)

MaxTargets == 2

\* The index of combined_scores: the first n of these
TargetList == <<"PTGS1", "PTGS2", "CYP3A4", "ABCB11", "TP53", "ALB">>

TargetsUpTo(n) == {TargetList[i] : i \in 1..n}

Weights == {Frac(0, 1), Frac(1, 1), Frac(2, 1)}

\* nan is the count of a target whose drugs are all outside the high-risk class
HighRiskCounts == {NaN, Frac(0, 1), Frac(1, 1)}

NetworkScores == {Frac(0, 1), Frac(2, 1)}

Alphas == {Frac(0, 1), Frac(1, 2), Frac(1, 1)}

FeatureRows ==
    [total_dili_weight : Weights, high_risk_drug_count : HighRiskCounts,
     network_dili_score : NetworkScores]

FSub(a, b) ==
    IF IsNaN(a) \/ IsNaN(b) THEN NaN
    ELSE Frac(a[1] * b[2] - b[1] * a[2], a[2] * b[2])

FMul(a, b) ==
    IF IsNaN(a) \/ IsNaN(b) THEN NaN
    ELSE Frac(a[1] * b[1], a[2] * b[2])

\* Series.max() / Series.min(): missing values are skipped, nan when nothing
\* is left
SeriesMax(values) ==
    IF values \ {NaN} = {} THEN NaN
    ELSE CHOOSE v \in values \ {NaN} : \A w \in values \ {NaN} : FGe(v, w)

SeriesMin(values) ==
    IF values \ {NaN} = {} THEN NaN
    ELSE CHOOSE v \in values \ {NaN} : \A w \in values \ {NaN} : FLe(v, w)

Column(table, feature) == {table[target][feature] : target \in DOMAIN table}

\* max_val > 0 (false for nan)
IsPositive(x) == ~IsNaN(x) /\ x[1] > 0

\* The division without the guard
DividedBy(x, max_val) == FDiv(x, max_val)

\* Lines 41-45: x / max_val if max_val > 0, else 0
NormalizedBy(x, max_val) ==
    IF IsPositive(max_val) THEN FDiv(x, max_val) ELSE Zero

\* A blend that also adds the normalized high-risk drug count
BlendWithCounts(row, a) ==
    FAdd(FAdd(row.total_dili_weight_normalized, row.high_risk_drug_count_normalized),
         FMul(a, row.network_dili_score_normalized))

\* Lines 48-51: direct evidence + alpha * network evidence
Blend(row, a) ==
    FAdd(row.total_dili_weight_normalized, FMul(a, row.network_dili_score_normalized))

\* Lines 54-56: divided by max_score if max_score > 0, else left as it is
FinalScore(x, max_score) ==
    IF IsPositive(max_score) THEN FDiv(x, max_score) ELSE x

\* Lines 36-45: the three normalized columns added, given the column maxima
WithNormalized(table, max_weight, max_count, max_network) ==
    [target \in DOMAIN table |->
        [total_dili_weight_normalized |->
             NormalizedBy(table[target].total_dili_weight, max_weight),
         high_risk_drug_count_normalized |->
             NormalizedBy(table[target].high_risk_drug_count, max_count),
         network_dili_score_normalized |->
             NormalizedBy(table[target].network_dili_score, max_network)]
        @@ table[target]]

\* Lines 48-51: the dili_risk_score column of a table with normalized columns
Blends(table, a) == [target \in DOMAIN table |-> Blend(table[target], a)]

RangeOf(f) == {f[x] : x \in DOMAIN f}

\* Lines 54-56
FinalScores(blends, max_score) ==
    [target \in DOMAIN blends |-> FinalScore(blends[target], max_score)]

\* The k-th smallest (k = 0 for the smallest) of the values of a column
OrderStatistic(scores, k) ==
    CHOOSE v \in RangeOf(scores) :
        /\ Cardinality({t \in DOMAIN scores : FGt(v, scores[t])}) <= k
        /\ k < Cardinality({t \in DOMAIN scores : FGe(v, scores[t])})

\* a + (b - a) * rem / 3
Interpolated(a, b, rem) == FAdd(a, FMul(Frac(rem, 3), FSub(b, a)))

\* np.quantile(x, i/3), linear interpolation: position (n - 1) * i / 3 in the
\* sorted values
Quantile(scores, i) ==
    IF ((Cardinality(DOMAIN scores) - 1) * i) % 3 = 0
    THEN OrderStatistic(scores, ((Cardinality(DOMAIN scores) - 1) * i) \div 3)
    ELSE Interpolated(OrderStatistic(scores, ((Cardinality(DOMAIN scores) - 1) * i) \div 3),
                      OrderStatistic(scores, ((Cardinality(DOMAIN scores) - 1) * i) \div 3 + 1),
                      ((Cardinality(DOMAIN scores) - 1) * i) % 3)

\* pd.qcut(q=3): the bin edges are the quantiles 0, 1/3, 2/3, 1
QuantileBins(scores) == [i \in 1..4 |-> Quantile(scores, i - 1)]

\* duplicates='drop' leaves fewer than four edges for the three labels, and
\* the label check raises ValueError
QcutRaises(quantile_bins) == Cardinality(RangeOf(quantile_bins)) < 4

\* 0.001 * abs(x), or 0.001 when x is 0
EndPointShift(x) ==
    IF x[1] = 0 THEN Frac(1, 1000) ELSE FMul(Frac(1, 1000), Frac(Abs(x[1]), x[2]))

\* np.linspace(mn, mx, 4)
Linspace(mn, mx) ==
    [i \in 1..4 |-> FAdd(mn, FMul(Frac(i - 1, 3), FSub(mx, mn)))]

\* pd.cut(bins=3): three equal-width bins over [min, max]; the end points
\* are moved apart when min = max, else the lowest edge is lowered by 0.1% of
\* the range
EqualWidthBins(mn, mx) ==
    IF mn = mx
    THEN Linspace(FSub(mn, EndPointShift(mn)), FAdd(mx, EndPointShift(mx)))
    ELSE [Linspace(mn, mx) EXCEPT ![1] = FSub(mn, FMul(Frac(1, 1000), FSub(mx, mn)))]

CutBins(scores) == EqualWidthBins(SeriesMin(RangeOf(scores)), SeriesMax(RangeOf(scores)))

\* The labels in the opposite order
LabelsReversed == <<"High", "Medium", "Low">>

labels == <<"Low", "Medium", "High">>

\* The label of bin number ids, none outside the edges
LabelOf(ids) == IF ids \in DOMAIN labels THEN labels[ids] ELSE NaNLabel

\* Right-closed bins without include_lowest
BinLabelAboveLowest(bins, x) ==
    LabelOf(Cardinality({i \in DOMAIN bins : FGt(x, bins[i])}))

\* _bins_to_cuts, right-closed bins with include_lowest: the number of edges
\* below x, 1 for the lowest edge itself
BinLabel(bins, x) ==
    IF x = bins[1] THEN labels[1]
    ELSE LabelOf(Cardinality({i \in DOMAIN bins : FGt(x, bins[i])}))

BinLabels(scores, bins) ==
    [target \in DOMAIN scores |-> BinLabel(bins, scores[target])]

\* Lines 59-73: the quantile bins, or the equal-width bins when pd.qcut raises
RiskBins(scores, quantile_bins) ==
    IF QcutRaises(quantile_bins) THEN CutBins(scores) ELSE quantile_bins

WithScores(table, scores, categories) ==
    [target \in DOMAIN table |->
        [dili_risk_score |-> scores[target], risk_category |-> categories[target]]
        @@ table[target]]

\* Lines 36-82: combined_scores after compute_final_risk_score(table), one
\* statement after the other
FinalRiskScores(table) ==
    \E max_weight \in {SeriesMax(Column(table, "total_dili_weight"))},
       max_count \in {SeriesMax(Column(table, "high_risk_drug_count"))},
       max_network \in {SeriesMax(Column(table, "network_dili_score"))} :
      \E with_normalized \in {WithNormalized(table, max_weight, max_count, max_network)} :
        \E blends \in {Blends(with_normalized, alpha)} :
          \E max_score \in {SeriesMax(RangeOf(blends))} :
            \E scores \in {FinalScores(blends, max_score)} :
              \E quantile_bins \in {QuantileBins(scores)} :
                \E bins \in {RiskBins(scores, quantile_bins)} :
                  combined_scores' = WithScores(with_normalized, scores,
                                                BinLabels(scores, bins))

\* The columns compute_final_risk_score is given
Features(row) ==
    [total_dili_weight |-> row.total_dili_weight,
     high_risk_drug_count |-> row.high_risk_drug_count,
     network_dili_score |-> row.network_dili_score]

InitRisk ==
    /\ IdleOthers
    /\ IdleNorm
    /\ IdleMatch
    /\ IdleTables
    /\ IdleNetwork
    /\ \E n \in 1..MaxTargets : combined_scores \in [TargetsUpTo(n) -> FeatureRows]
    /\ alpha \in Alphas
    /\ rpc = "start"

ComputeFinalRiskScore ==
    /\ rpc = "start"
    /\ FinalRiskScores(combined_scores)
    /\ rpc' = "done"
    /\ UNCHANGED <<alpha, networkVars, notScores>>

\* The same call on a table that differs from the first one only in the
\* high_risk_drug_count of one target
ComputeWithOtherCount ==
    /\ rpc \in {"done", "again"}
    /\ \E target \in DOMAIN combined_scores, count \in HighRiskCounts :
          /\ count # combined_scores[target].high_risk_drug_count
          /\ \E table \in {[t \in DOMAIN combined_scores |->
                                IF t = target
                                THEN [Features(combined_scores[t])
                                          EXCEPT !.high_risk_drug_count = count]
                                ELSE Features(combined_scores[t])]} :
                FinalRiskScores(table)
    /\ rpc' = "again"
    /\ UNCHANGED <<alpha, networkVars, notScores>>

NextRisk == ComputeFinalRiskScore \/ ComputeWithOtherCount

SpecRisk == InitRisk /\ [][NextRisk]_vars

-----------------------------------------------------------------------------
(* The categorisation step of compute_final_risk_score (RiskCalculator     *)
(* lines 58-73, DILIRiskScorer lines 149-164), given a table of final      *)
(* scores                                                                  *)

MaxScored == 5

\* Final scores: lines 54-56 leave a column whose largest value is 1, or an
\* all-zero column
ScoreValues == {Frac(0, 1), Frac(1, 4), Frac(1, 2), Frac(3, 4), Frac(1, 1)}

ScoredRows == [dili_risk_score : ScoreValues]

IsFinalScoreTable(table) ==
    \/ \E target \in DOMAIN table : table[target].dili_risk_score = One
    \/ \A target \in DOMAIN table : table[target].dili_risk_score = Zero

ScoresOf(table) == [target \in DOMAIN table |-> table[target].dili_risk_score]

\* Lines 59-73: the risk_category column
RiskCategories(scores) ==
    BinLabels(scores, RiskBins(scores, QuantileBins(scores)))

InitCategories ==
    /\ IdleOthers
    /\ IdleNorm
    /\ IdleMatch
    /\ IdleTables
    /\ IdleNetwork
    /\ \E n \in 1..MaxScored : combined_scores \in [TargetsUpTo(n) -> ScoredRows]
    /\ IsFinalScoreTable(combined_scores)
    /\ alpha = Frac(1, 2)
    /\ rpc = "scored"

Categorize ==
    /\ rpc = "scored"
    /\ \E scores \in {ScoresOf(combined_scores)} :
          \E categories \in {RiskCategories(scores)} :
             combined_scores' = [target \in DOMAIN combined_scores |->
                                    [risk_category |-> categories[target]]
                                    @@ combined_scores[target]]
    /\ rpc' = "categorized"
    /\ UNCHANGED <<alpha, networkVars, notScores>>

NextCategories == Categorize

SpecCategories == InitCategories /\ [][NextCategories]_vars

-----------------------------------------------------------------------------
(* main(): acquisition, ETL, risk scoring, validation, over the files of    *)
(* data/interim, data/processed and results                                 *)

\* A file is absent, left by a previous run, or written by this run
FileNames ==
    {"fda_dilirank", "drug_target_mapping_clean", "drug_target_mapping",
     "guilt_by_association_targets", "drug_target_table", "target_network",
     "dili_risk_scores", "validation_results", "validation_report"}

Exists(file) == files[file] # "absent"

Written(written) ==
    [file \in FileNames |-> IF file \in written THEN "current" ELSE files[file]]

InitMain ==
    /\ IdleValidation
    /\ IdleNorm
    /\ IdleMatch
    /\ IdleTables
    /\ IdleScores
    /\ files \in [FileNames -> {"absent", "previous"}]
    /\ main_pc = "acquire"
    /\ stages_started = <<>>
    /\ absent_results = {}

\* acquire_all lines 99-102: the four downloads.  A failing BigQuery client
\* or download raises; download_and_parse_dilirank saves the scraped table or
\* the fallback rows.
AcquireSources ==
    /\ main_pc = "acquire"
    /\ stages_started' = Append(stages_started, "acquisition")
    /\ \/ /\ main_pc' = "raised"
          /\ UNCHANGED files
       \/ /\ main_pc' = "associations"
          /\ files' = Written({"fda_dilirank"})
    /\ UNCHANGED <<absent_results, validationVars, notOthers>>

\* acquire_drug_target_associations (lines 45-96), whose result acquire_all
\* drops (lines 103-104): None without the DILIrank file, when no drug or no
\* association comes back from the query, else the clean mapping is saved
AcquireDrugTargetAssociations ==
    /\ main_pc = "associations"
    /\ \/ /\ main_pc' = "raised"
          /\ UNCHANGED <<files, absent_results>>
       \/ /\ main_pc' = "etl"
          /\ \E drugs_found \in BOOLEAN, associations_found \in BOOLEAN :
                IF Exists("fda_dilirank") /\ drugs_found /\ associations_found
                THEN /\ files' = Written({"drug_target_mapping_clean"})
                     /\ UNCHANGED absent_results
                ELSE /\ absent_results' =
                           absent_results \cup {"acquire_drug_target_associations"}
                     /\ UNCHANGED files
    /\ UNCHANGED <<stages_started, validationVars, notOthers>>

\* build_drug_target_table, lines 249-288, and build_target_network, lines
\* 298-323: the files run_etl writes
EtlWrites ==
    (IF Exists("drug_target_mapping") THEN {"drug_target_table"} ELSE {})
    \cup (IF Exists("guilt_by_association_targets") THEN {"target_network"} ELSE {})

\* main lines 52-59 with ETL.run_etl: the table is built from
\* drug_target_mapping.parquet when that file exists; main returns when the
\* table is empty
RunEtl ==
    /\ main_pc = "etl"
    /\ stages_started' = Append(stages_started, "etl")
    /\ files' = Written(EtlWrites)
    /\ IF Exists("drug_target_mapping")
       THEN /\ \E has_rows \in BOOLEAN :
                  main_pc' = IF has_rows THEN "scoring" ELSE "returned"
            /\ UNCHANGED absent_results
       ELSE /\ main_pc' = "returned"
            /\ absent_results' = absent_results \cup {"build_drug_target_table"}
    /\ UNCHANGED <<validationVars, notOthers>>

\* main lines 61-68 with DILIRiskScorer.score_targets (lines 183-212)
ScoreTargets ==
    /\ main_pc = "scoring"
    /\ stages_started' = Append(stages_started, "risk scoring")
    /\ IF Exists("drug_target_table")
       THEN /\ files' = Written({"dili_risk_scores"})
            /\ main_pc' = "validation"
            /\ UNCHANGED absent_results
       ELSE /\ main_pc' = "returned"
            /\ absent_results' = absent_results \cup {"score_targets"}
            /\ UNCHANGED files
    /\ UNCHANGED <<validationVars, notOthers>>

\* main lines 70-84 with Validator.run_validation (lines 49-93): the report
\* and the results are written also when the joined table is empty
RunValidation ==
    /\ main_pc = "validation"
    /\ stages_started' = Append(stages_started, "validation")
    /\ IF Exists("drug_target_table") /\ Exists("dili_risk_scores")
       THEN /\ files' = Written({"validation_report", "validation_results"})
            /\ \E has_rows \in BOOLEAN :
                  main_pc' = IF has_rows THEN "complete" ELSE "returned"
            /\ UNCHANGED absent_results
       ELSE /\ main_pc' = "returned"
            /\ absent_results' = absent_results \cup {"run_validation"}
            /\ UNCHANGED files
    /\ UNCHANGED <<validationVars, notOthers>>

NextMain ==
    \/ AcquireSources
    \/ AcquireDrugTargetAssociations
    \/ RunEtl
    \/ ScoreTargets
    \/ RunValidation

SpecMain == InitMain /\ [][NextMain]_vars

-----------------------------------------------------------------------------
(* validation/metrics.py: compute_approval_rates and                       *)
(* compute_withdrawal_rates of a drug-target table                         *)

MaxValidationRows == 2

\* approval_status after the left merge of the OpenFDA status: a status or
\* missing
ApprovalStatuses == {"approved", "withdrawn", NaNLabel}

\* The optional columns of a row
ExtraColumns(columns) ==
    IF columns = {} THEN {<<>>}
    ELSE IF columns = {"approval_status"}
    THEN [approval_status : ApprovalStatuses]
    ELSE IF columns = {"withdrawn"}
    THEN [withdrawn : BOOLEAN]
    ELSE [approval_status : ApprovalStatuses, withdrawn : BOOLEAN]

\* The rows of a table that has the three mapping columns and `columns`
ValidationRows(columns) ==
    {base @@ extra :
        base \in [fda_drug_name : Drugs, ot_target_symbol : Targets,
                  fda_dili_concern : {"No-DILI-Concern", "Most-DILI-Concern"}],
        extra \in ExtraColumns(columns)}

\* Lines 9-12 and 48-51: drop_duplicates on (fda_drug_name, ot_target_symbol)
DrugTargetDedup(df) == DropDuplicates(df, [i \in DOMAIN df |-> EvidenceKey(df[i])])

\* (x == value).sum() and 'sum' of a boolean column
CountWhere(rows, column, value) ==
    Cardinality({i \in DOMAIN rows : rows[i][column] = value})

\* numerator / total_drugs, missing filled with 0
Rate(numerator, total_drugs) ==
    FillNa0(FDiv(Frac(numerator, 1), Frac(total_drugs, 1)))

\* Lines 15-38 for one target: 'count' of fda_drug_name, the approved rows (the
\* No-DILI-Concern rows without approval_status), their ratio
ApprovalStats(rows, columns) ==
    IF "approval_status" \in columns
    THEN [total_drugs |-> Len(rows),
          approved_drugs |-> CountWhere(rows, "approval_status", "approved"),
          approval_rate |-> Rate(CountWhere(rows, "approval_status", "approved"),
                                 Len(rows))]
    ELSE [total_drugs |-> Len(rows),
          safe_drugs |-> CountWhere(rows, "fda_dili_concern", "No-DILI-Concern"),
          approval_rate |-> Rate(CountWhere(rows, "fda_dili_concern", "No-DILI-Concern"),
                                 Len(rows))]

WithdrawalStats(rows) ==
    [total_drugs |-> Len(rows),
     withdrawn_drugs |-> CountWhere(rows, "withdrawn", TRUE),
     withdrawal_rate |-> Rate(CountWhere(rows, "withdrawn", TRUE), Len(rows))]

\* Line 38 and 66: the targets with total_drugs > 0
CountedTargets(dedup) ==
    {target \in GroupKeys(dedup) : Len(RowsOfTarget(dedup, target)) > 0}

compute_approval_rates(df, columns) ==
    [target \in CountedTargets(DrugTargetDedup(df)) |->
        ApprovalStats(RowsOfTarget(DrugTargetDedup(df), target), columns)]

\* An empty frame without the withdrawn column
compute_withdrawal_rates(df, columns) ==
    IF "withdrawn" \notin columns THEN <<>>
    ELSE [target \in CountedTargets(DrugTargetDedup(df)) |->
             WithdrawalStats(RowsOfTarget(DrugTargetDedup(df), target))]

InitRates ==
    /\ IdleNorm
    /\ IdleMatch
    /\ IdleTables
    /\ IdleScores
    /\ IdlePipeline
    /\ val_columns \in SUBSET {"approval_status", "withdrawn"}
    /\ val_df \in SeqsUpTo(ValidationRows(val_columns), MaxValidationRows)
    /\ risk_scores = <<>>
    /\ approval_rates = <<>>
    /\ withdrawal_rates = <<>>
    /\ validation_df = <<>>
    /\ vpc = "start"
    /\ report = <<>>

ComputeApprovalRates ==
    /\ vpc \in {"start", "withdrawal"}
    /\ approval_rates' = compute_approval_rates(val_df, val_columns)
    /\ vpc' = IF vpc = "start" THEN "approval" ELSE "rates"
    /\ UNCHANGED <<val_columns, val_df, risk_scores, withdrawal_rates, validation_df,
                   report>>
    /\ UNCHANGED <<pipeVars, notOthers>>

ComputeWithdrawalRates ==
    /\ vpc \in {"start", "approval"}
    /\ withdrawal_rates' = compute_withdrawal_rates(val_df, val_columns)
    /\ vpc' = IF vpc = "start" THEN "withdrawal" ELSE "rates"
    /\ UNCHANGED <<val_columns, val_df, risk_scores, approval_rates, validation_df,
                   report>>
    /\ UNCHANGED <<pipeVars, notOthers>>

NextRates == ComputeApprovalRates \/ ComputeWithdrawalRates

SpecRates == InitRates /\ [][NextRates]_vars

-----------------------------------------------------------------------------
(* validation/validator.py: Validator.run_validation, and                  *)
(* ApprovalValidator.validate_risk_scores (the same join on given tables)  *)

\* The targets of a risk-score table; CYP3A4 has no row in any drug-target
\* table of the model
ValidationTargets == TargetsUpTo(3)

\* dili_risk_scores.parquet: one row per target
RiskScoreTables ==
    {SelectSeq([i \in 1..3 |-> [ot_target_symbol |-> TargetList[i],
                                dili_risk_score |-> score[i]]],
               LAMBDA row : row.ot_target_symbol \in present) :
        present \in SUBSET ValidationTargets,
        score \in [1..3 -> {Zero, One}]}

\* Rows whose withdrawn flag is independent of the status
IndependentFlagRows(columns) == ValidationRows(columns)

\* drug_target_table.parquet as the ETL writes it: withdrawn is
\* approval_status == 'withdrawn' (etl.py line 281)
WrittenRows(columns) ==
    {row \in ValidationRows(columns) :
        "withdrawn" \in columns => row.withdrawn = (row.approval_status = "withdrawn")}

\* Rate tables given to validate_risk_scores
ApprovalRateTables ==
    UNION {[present -> {[total_drugs |-> 2, approved_drugs |-> k,
                         approval_rate |-> Frac(k, 2)] : k \in 0..2}] :
              present \in SUBSET Targets}

WithdrawalRateTables ==
    UNION {[present -> {[total_drugs |-> 2, withdrawn_drugs |-> k,
                         withdrawal_rate |-> Frac(k, 2)] : k \in 0..2}] :
              present \in SUBSET Targets}

\* A correlation coefficient r as <<sign of r, numerator, denominator of r^2>>
CorrNaN == <<0, 0, 0>>

RECURSIVE SumProducts(_, _, _)
\* Sum over the observations of obs[i][a] * obs[i][b]
SumProducts(obs, a, b) ==
    IF obs = <<>> THEN Zero
    ELSE FAdd(FMul(Head(obs)[a], Head(obs)[b]), SumProducts(Tail(obs), a, b))

\* Series.corr: Pearson over the rows where both values are present; missing
\* with fewer than two such rows or without variance
Pearson(obs) ==
    LET n == Frac(Len(obs), 1)
        ones == [i \in DOMAIN obs |-> <<obs[i][1], obs[i][2], One>>]
        sx == SumProducts(ones, 1, 3)
        sy == SumProducts(ones, 2, 3)
        sxy == FSub(FMul(n, SumProducts(ones, 1, 2)), FMul(sx, sy))
        sxx == FSub(FMul(n, SumProducts(ones, 1, 1)), FMul(sx, sx))
        syy == FSub(FMul(n, SumProducts(ones, 2, 2)), FMul(sy, sy))
        square == FDiv(FMul(sxy, sxy), FMul(sxx, syy))
    IN IF Len(obs) < 2 \/ sxx = Zero \/ syy = Zero THEN CorrNaN
       ELSE <<IF sxy[1] > 0 THEN 1 ELSE IF sxy[1] < 0 THEN -1 ELSE 0,
              square[1], square[2]>>

Corr(rows, column) ==
    Pearson([i \in DOMAIN SelectSeq(rows, LAMBDA row : ~IsNaN(row[column])) |->
                <<SelectSeq(rows, LAMBDA row : ~IsNaN(row[column]))[i].dili_risk_score,
                  SelectSeq(rows, LAMBDA row : ~IsNaN(row[column]))[i][column]>>])

\* how='inner' on the index: the rows of the left table whose target has a
\* row in the right one
InnerMerge(rows, rates) ==
    [i \in DOMAIN SelectSeq(rows, LAMBDA row : row.ot_target_symbol \in DOMAIN rates) |->
        SelectSeq(rows, LAMBDA row : row.ot_target_symbol \in DOMAIN rates)[i]
        @@ rates[SelectSeq(rows, LAMBDA row : row.ot_target_symbol \in DOMAIN rates)[i].ot_target_symbol]]

InnerMergeKeeps(target, withdrawal) == target \in DOMAIN withdrawal

\* how='left': a row is kept whether or not its target has a withdrawal rate
LeftMergeKeeps(target, withdrawal) == TRUE

\* The left merge of withdrawal_rates[['withdrawal_rate']], skipped when
\* withdrawal_rates is empty
WithdrawalMerge(rows, withdrawal) ==
    IF DOMAIN withdrawal = {} THEN rows
    ELSE LET kept == SelectSeq(rows, LAMBDA row :
                        LeftMergeKeeps(row.ot_target_symbol, withdrawal))
         IN [i \in DOMAIN kept |->
                kept[i] @@
                [withdrawal_rate |->
                    IF kept[i].ot_target_symbol \in DOMAIN withdrawal
                    THEN withdrawal[kept[i].ot_target_symbol].withdrawal_rate
                    ELSE NaN]]

\* The correlation columns: one scalar assigned to the whole column
WithCorrelations(rows, has_withdrawal) ==
    LET approval == Corr(rows, "approval_rate")
        withdrawal == IF has_withdrawal THEN Corr(rows, "withdrawal_rate") ELSE CorrNaN
    IN [i \in DOMAIN rows |->
           rows[i] @@ [correlation_with_approval |-> approval]
                   @@ (IF has_withdrawal
                       THEN [correlation_with_withdrawal |-> withdrawal]
                       ELSE <<>>)]

ValidationTable(risk, approval, withdrawal) ==
    WithCorrelations(WithdrawalMerge(InnerMerge(risk, approval), withdrawal),
                     DOMAIN withdrawal # {})

\* report.py: format_sig of the mean of no scores raises (line 22), and so
\* does row['withdrawal_rate'] of a table without that column (line 78)
ReportRaises(table, withdrawal) == table = <<>> \/ DOMAIN withdrawal = {}

\* Lines 28-44 of report.py (161-180 of approval_validator.py): the line
\* after each correlation value, chosen by `correlation < 0` for the approval
\* rate and by `correlation > 0` for the withdrawal rate; a comparison with
\* nan is false
QualitativeLines(table) ==
    [approval |-> IF table[1].correlation_with_approval[1] < 0
                  THEN "Negative correlation" ELSE "Positive correlation"]
    @@ (IF "correlation_with_withdrawal" \in DOMAIN table[1]
        THEN [withdrawal |-> IF table[1].correlation_with_withdrawal[1] > 0
                             THEN "Positive correlation" ELSE "Negative correlation"]
        ELSE <<>>)

InitValidation ==
    /\ IdleNorm
    /\ IdleMatch
    /\ IdleTables
    /\ IdleScores
    /\ IdlePipeline
    /\ risk_scores \in RiskScoreTables
    /\ validation_df = <<>>
    /\ report = <<>>
    /\ \/ /\ vpc = "start"
          /\ val_columns \in {{}, {"approval_status", "withdrawn"}}
          /\ val_df \in SeqsUpTo(WrittenRows(val_columns), MaxValidationRows)
          /\ approval_rates = <<>>
          /\ withdrawal_rates = <<>>
       \/ /\ vpc = "rates"
          /\ val_columns = {}
          /\ val_df = <<>>
          /\ approval_rates \in ApprovalRateTables
          /\ withdrawal_rates \in WithdrawalRateTables

\* Validator.run_validation with both files present
run_validation ==
    /\ vpc = "start"
    /\ \E approval \in {compute_approval_rates(val_df, val_columns)},
          withdrawal \in {compute_withdrawal_rates(val_df, val_columns)} :
          \E table \in {ValidationTable(risk_scores, approval, withdrawal)} :
             /\ approval_rates' = approval
             /\ withdrawal_rates' = withdrawal
             /\ validation_df' = table
             /\ vpc' = IF ReportRaises(table, withdrawal) THEN "raised" ELSE "done"
             /\ report' = IF ReportRaises(table, withdrawal) THEN report
                           ELSE QualitativeLines(table)
    /\ UNCHANGED <<val_columns, val_df, risk_scores>>
    /\ UNCHANGED <<pipeVars, notOthers>>

validate_risk_scores ==
    /\ vpc = "rates"
    /\ validation_df' = ValidationTable(risk_scores, approval_rates, withdrawal_rates)
    /\ vpc' = "validated"
    /\ UNCHANGED <<val_columns, val_df, risk_scores, approval_rates, withdrawal_rates,
                   report>>
    /\ UNCHANGED <<pipeVars, notOthers>>

\* ApprovalValidator.generate_validation_report on the validated table:
\* .iloc[0] of an empty column raises (line 163), else the file is written
generate_validation_report ==
    /\ vpc = "validated"
    /\ vpc' = IF validation_df = <<>> THEN "report raised" ELSE "reported"
    /\ report' = IF validation_df = <<>> THEN report ELSE QualitativeLines(validation_df)
    /\ UNCHANGED <<val_columns, val_df, risk_scores, approval_rates, withdrawal_rates,
                   validation_df>>
    /\ UNCHANGED <<pipeVars, notOthers>>

NextValidation == run_validation \/ validate_risk_scores \/ generate_validation_report

SpecValidation == InitValidation /\ [][NextValidation]_vars

-----------------------------------------------------------------------------
(* main(): DILIRiskScorer(alpha=0.5).score_targets() and then               *)
(* Validator().run_validation() over the same drug_target_table.parquet    *)

\* drug_target_table.parquet: the rows the ETL writes, with the weight of
\* their class
ScorerRows ==
    {row @@ [dili_severity_weight |-> SeverityWeight(row.fda_dili_concern)] :
        row \in WrittenRows({"approval_status", "withdrawn"})}

\* target_network.parquet, with the columns risk_targets and n_risk_targets
ScorerNetworkRows == [target1 : Targets, n_risk_targets : {1}]

\* DILIRiskScorer.compute_direct_dili_evidence, lines 43-60: per target the
\* 'count' of the drug names (one per row), the sum of the weights and the
\* number of Most-DILI-Concern rows, without drop_duplicates
ScorerDirectEvidence(df) ==
    [target \in GroupKeys(df) |->
        EvidenceRow(Len(RowsOfTarget(df, target)),
                    SumWeight(RowsOfTarget(df, target), Len(RowsOfTarget(df, target))),
                    Frac(CountWhere(RowsOfTarget(df, target), "fda_dili_concern",
                                    "Most-DILI-Concern"), 1))]

\* DILIRiskScorer.compute_network_guilt_by_association, lines 79-114: 0 with
\* an empty network, else the sum of n_risk_targets over the rows whose
\* target1 is the target
ScorerNetworkScores(direct, network) ==
    [target \in DOMAIN direct |->
        WithNetworkScore(direct[target],
            IF network = <<>> THEN 0
            ELSE SumRiskTargets(SelectSeq(network, LAMBDA row : row.target1 = target),
                                Len(SelectSeq(network, LAMBDA row : row.target1 = target))))]

\* Line 208: reset_index, the target symbol as a column, in index order
ResetIndex(table) ==
    LET index == SelectSeq(TargetList, LAMBDA target : target \in DOMAIN table)
    IN [i \in DOMAIN index |-> [ot_target_symbol |-> index[i]] @@ table[index[i]]]

InitPipeline ==
    /\ IdleNorm
    /\ IdleMatch
    /\ IdleTables
    /\ IdlePipeline
    /\ mapping_exists = FALSE
    /\ mapping_df = <<>>
    /\ kpc = "idle"
    /\ network_df \in SeqsUpTo(ScorerNetworkRows, 1)
    /\ combined_scores = <<>>
    /\ alpha = Frac(1, 2)
    /\ rpc = "idle"
    /\ val_columns = {"approval_status", "withdrawn"}
    /\ val_df \in SeqsUpTo(ScorerRows, MaxValidationRows) \ {<<>>}
    /\ risk_scores = <<>>
    /\ approval_rates = <<>>
    /\ withdrawal_rates = <<>>
    /\ validation_df = <<>>
    /\ vpc = "scoring"
    /\ report = <<>>

\* score_targets, lines 175-212, with the drug-target table present
score_targets ==
    /\ vpc = "scoring"
    /\ FinalRiskScores(ScorerNetworkScores(ScorerDirectEvidence(val_df), network_df))
    /\ risk_scores' = ResetIndex(combined_scores')
    /\ rpc' = "saved"
    /\ vpc' = "start"
    /\ UNCHANGED <<val_columns, val_df, approval_rates, withdrawal_rates,
                   validation_df, report>>
    /\ UNCHANGED <<alpha, networkVars, pipeVars, normVars, matchVars, tableVars>>

NextPipeline == score_targets \/ run_validation

SpecPipeline == InitPipeline /\ [][NextPipeline]_vars

-----------------------------------------------------------------------------
(* The three scoring stages in sequence: DirectEvidenceComputer, then      *)
(* NetworkScorer on its result, then RiskCalculator on the combined table  *)

InitStages ==
    /\ IdleOthers
    /\ IdleNorm
    /\ IdleMatch
    /\ IdleMap
    /\ drug_target_df \in SeqsUpTo(ScoredAssociationRows, MaxAssociations) \ {<<>>}
    /\ drug_target_dedup = <<>>
    /\ direct_evidence = <<>>
    /\ epc = "start"
    /\ network_df \in SeqsUpTo(NetworkRows, MaxNetworkRows)
    /\ mapping_exists \in BOOLEAN
    /\ mapping_df \in SeqsUpTo(TargetMappingRows, MaxMappingRows)
    /\ ~mapping_exists => mapping_df = <<>>
    /\ kpc = "idle"
    /\ combined_scores = <<>>
    /\ alpha = Frac(1, 2)
    /\ rpc = "idle"

\* compute_direct_dili_evidence, its result handed to the network scorer
StageDirectEvidence ==
    /\ epc = "start"
    /\ drug_target_dedup' = Deduplicated(drug_target_df)
    /\ direct_evidence' = DirectEvidence(drug_target_dedup')
    /\ epc' = "done"
    /\ kpc' = "start"
    /\ UNCHANGED <<drug_target_df, mapVars, network_df, mapping_exists, mapping_df,
                   riskVars, normVars, matchVars, otherVars>>

\* compute_network_guilt_by_association on a non-empty direct_evidence, its
\* result handed to the risk calculator
StageNetworkScores ==
    /\ kpc = "start"
    /\ epc = "done"
    /\ combined_scores' =
          IF network_df = <<>> \/ ~mapping_exists
          THEN ZeroNetworkScores
          ELSE [target \in DOMAIN direct_evidence |->
                   WithNetworkScore(direct_evidence[target],
                                    NeighborDiliScore(network_df, mapping_df, target))]
    /\ kpc' = "done"
    /\ rpc' = "start"
    /\ UNCHANGED <<alpha, network_df, mapping_exists, mapping_df, notScores>>

NextStages == StageDirectEvidence \/ StageNetworkScores \/ ComputeFinalRiskScore

SpecStages == InitStages /\ [][NextStages]_vars

-----------------------------------------------------------------------------
\* C1: normalize_drug_name is idempotent: normalizing a normalized name
\* returns it unchanged.
C1_Idempotent == npc = "twice" => renormalized = normalized

\* C2: for every source list, candidate list, threshold and worker count,
\* the parallel matcher's chunks hold every source name once and in order,
\* and it returns the same mapping as the serial matcher.
C2_ParallelEqualsSerial ==
    /\ ppc \in {"jobs", "pool", "mapped", "raised", "returned"}
           => Flatten(fda_chunks) = fda_drugs
    /\ ppc \in {"raised", "returned"}
           => ppc = "returned" /\ par_matches = matches

\* C3: the serial mapping has at most one entry per source name, every value
\* is a name from the candidate list, and a source name with no candidate
\* found has no entry (it is never mapped to None).
C3_EntriesAreCandidates ==
    mpc = "done" =>
        /\ \A i, j \in DOMAIN matches : matches[i][1] = matches[j][1] => i = j
        /\ \A i \in DOMAIN matches :
               /\ \E k \in DOMAIN fda_drugs : fda_drugs[k] = matches[i][1]
               /\ \E k \in DOMAIN ot_drugs : ot_drugs[k] = matches[i][2]

\* The serial matcher has just handled 'Acetaminophen' against the candidate
\* list ['acetaminophen hcl']
AcetaminophenHandled ==
    /\ fda_drugs = <<Acetaminophen>>
    /\ ot_drugs = <<acetaminophen_hcl>>
    /\ mpc \in {"loop", "done"}
    /\ mi = 2

\* C4: 'Acetaminophen' and 'acetaminophen hcl' both normalize to
\* 'acetaminophen', and matching 'Acetaminophen' against ['acetaminophen hcl']
\* gives 'acetaminophen hcl' with similarity 1.0, assigned by the
\* exact-variation step (step 1): the normalized-exact step is not reached.
C4_MatchedByExactStep ==
    /\ Normalized(Acetaminophen) = n_acetaminophen
    /\ Normalized(acetaminophen_hcl) = n_acetaminophen
    /\ AcetaminophenHandled =>
          /\ best_match = acetaminophen_hcl
          /\ best_score = One
          /\ tier = "exact"

C4_Witness ==
    /\ AcetaminophenHandled
    /\ mpc = "done"
    /\ threshold = One
    /\ matches = << <<Acetaminophen, acetaminophen_hcl>> >>

\* C4 as stated: the match comes from the normalized-exact step (step 2)
C4_MatchedByNormalizedStep ==
    /\ Normalized(Acetaminophen) = n_acetaminophen
    /\ Normalized(acetaminophen_hcl) = n_acetaminophen
    /\ AcetaminophenHandled =>
          /\ best_match = acetaminophen_hcl
          /\ best_score = One
          /\ tier = "normalized"

\* Positions of the rows of the OpenTargets table with this drug and target
OtRowsOf(drug_name, target) ==
    {k \in DOMAIN ot_drug_target_df :
        /\ ot_drug_target_df[k].drug_name = drug_name
        /\ ot_drug_target_df[k].target_symbol = target}

\* Positions of the rows of the FDA table with this name
FdaRowsOf(fda_name) ==
    {k \in DOMAIN fda_dilirank_df : fda_dilirank_df[k].Compound_Name = fda_name}

\* Positions of the rows of the drug-target table with this drug and target
AssociationsOf(drug, target) ==
    {k \in DOMAIN drug_target_df :
        /\ drug_target_df[k].fda_drug_name = drug
        /\ drug_target_df[k].ot_target_symbol = target}

\* C5: the table create_drug_target_mapping returns has no two rows with the
\* same (fda_drug_name, target_symbol), and the row kept for a pair is the
\* first one in input row order; DirectEvidenceComputer deduplicates the same
\* way before aggregating, so only first occurrences are summed and counted.
C5_FirstOccurrenceKept ==
    /\ cpc = "done" =>
          /\ \A i, j \in DOMAIN clean_mapping_df :
                 MappingKey(clean_mapping_df[i]) = MappingKey(clean_mapping_df[j]) => i = j
          /\ \A i \in DOMAIN clean_mapping_df :
                 LET row == clean_mapping_df[i]
                 IN /\ row.phase =
                          ot_drug_target_df[Min(OtRowsOf(row.drug_name, row.target_symbol))].phase
                    /\ row.fda_dili_concern =
                          IF FdaRowsOf(row.fda_drug_name) = {} THEN NaNLabel
                          ELSE fda_dilirank_df[Min(FdaRowsOf(row.fda_drug_name))].vDILIConcern
    /\ epc = "done" =>
          /\ \A i, j \in DOMAIN drug_target_dedup :
                 EvidenceKey(drug_target_dedup[i]) = EvidenceKey(drug_target_dedup[j]) => i = j
          /\ \A i \in DOMAIN drug_target_dedup :
                 LET row == drug_target_dedup[i]
                 IN row = drug_target_df[Min(AssociationsOf(row.fda_drug_name,
                                                           row.ot_target_symbol))]
          /\ \A target \in DOMAIN direct_evidence :
                 /\ direct_evidence[target].drug_count =
                        Len(RowsOfTarget(drug_target_dedup, target))
                 /\ direct_evidence[target].total_dili_weight =
                        SumWeight(RowsOfTarget(drug_target_dedup, target),
                                  Len(RowsOfTarget(drug_target_dedup, target)))

\* Two rows of one matched drug and target that differ in phase went in, one
\* row came out
C5_Witness ==
    /\ cpc = "done"
    /\ Len(ot_drug_target_df) = 2
    /\ ot_drug_target_df[1].drug_name = ot_drug_target_df[2].drug_name
    /\ ot_drug_target_df[1].target_symbol = ot_drug_target_df[2].target_symbol
    /\ ot_drug_target_df[1].phase # ot_drug_target_df[2].phase
    /\ Len(clean_mapping_df) = 1

\* The distinct drugs of a target in the drug-target table
DrugsOf(target) ==
    {drug_target_df[k].fda_drug_name :
        k \in {i \in DOMAIN drug_target_df : drug_target_df[i].ot_target_symbol = target}}

\* The sum, over a set of drugs of a target, of the weight of the first row of
\* each
RECURSIVE FirstSeenWeight(_, _)
FirstSeenWeight(drugs, target) ==
    IF drugs = {} THEN Zero
    ELSE LET drug == CHOOSE d \in drugs : TRUE
         IN FAdd(FirstSeenWeight(drugs \ {drug}, target),
                 drug_target_df[Min(AssociationsOf(drug, target))].dili_severity_weight)

DistinctDrugEvidence ==
    epc = "done" =>
        \A target \in Targets :
            /\ target \in DOMAIN direct_evidence <=> DrugsOf(target) # {}
            /\ target \in DOMAIN direct_evidence =>
                  /\ direct_evidence[target].drug_count = Cardinality(DrugsOf(target))
                  /\ direct_evidence[target].total_dili_weight =
                        FirstSeenWeight(DrugsOf(target), target)

DuplicateChangesNothing ==
    ComputeWithDuplicate =>
        /\ DOMAIN direct_evidence' = DOMAIN direct_evidence
        /\ \A target \in DOMAIN direct_evidence :
              /\ direct_evidence'[target].drug_count = direct_evidence[target].drug_count
              /\ direct_evidence'[target].total_dili_weight =
                    direct_evidence[target].total_dili_weight

\* C6: for each target drug_count is the number of distinct drugs associated
\* with it and total_dili_weight is the sum of the weight of the first-seen
\* row of each distinct drug; computing again with a duplicate of an existing
\* (drug, target) row added changes neither.
C6_DistinctDrugsFirstWeights ==
    []DistinctDrugEvidence /\ [][DuplicateChangesNothing]_vars

\* 'Aspirin' has two rows for 'PTGS1' with different weights, the second one
\* added as a duplicate, and drug_count is 1 with the first row's weight
C6_Witness ==
    /\ epc = "done"
    /\ Len(drug_target_df) = MaxAssociations + 1
    /\ AssociationsOf("Aspirin", "PTGS1") = {1, MaxAssociations + 1}
    /\ drug_target_df[1].fda_dili_concern = "Less-DILI-Concern"
    /\ drug_target_df[MaxAssociations + 1].fda_dili_concern = "Most-DILI-Concern"
    /\ DrugsOf("PTGS1") = {"Aspirin"}
    /\ direct_evidence["PTGS1"].drug_count = 1
    /\ direct_evidence["PTGS1"].total_dili_weight = One

\* A defined number between lo and hi
Within(x, lo, hi) == x[2] > 0 /\ FGe(x, lo) /\ FLe(x, hi)

MappedNodes(target) ==
    IF mapping_exists THEN PcTargetsOf(mapping_df, target) ELSE {}

\* The sum of n_risk_targets over the network rows at positions rows
RECURSIVE FlatSum(_)
FlatSum(rows) ==
    IF rows = {} THEN 0
    ELSE LET k == CHOOSE i \in rows : TRUE
         IN network_df[k].n_risk_targets + FlatSum(rows \ {k})

\* C8: for each target T with direct evidence, network_dili_score(T) is the
\* flat sum of n_risk_targets over the network rows whose target1 is a node
\* mapped to T, which is 0 for an empty network, a missing mapping, a target
\* without mapped node and a mapped node without row; no error is raised and
\* the direct-evidence columns are kept.
C8_FlatSumOfMappedRows ==
    /\ kpc = "raised" => DOMAIN direct_evidence = {}
    /\ kpc = "done" =>
          /\ DOMAIN combined_scores = DOMAIN direct_evidence
          /\ \A target \in DOMAIN direct_evidence :
                 combined_scores[target].network_dili_score =
                     Frac(FlatSum({k \in DOMAIN network_df :
                                      network_df[k].target1 \in MappedNodes(target)}), 1)

\* PTGS1 is mapped to both nodes and gets the sum of their two rows; PTGS2
\* has no mapped node and gets 0
C8_Witness ==
    /\ kpc = "done"
    /\ DOMAIN direct_evidence = {"PTGS1", "PTGS2"}
    /\ mapping_exists
    /\ MappedNodes("PTGS1") = PcTargets
    /\ MappedNodes("PTGS2") = {}
    /\ Len(network_df) = 2
    /\ network_df[1].target1 # network_df[2].target1
    /\ combined_scores["PTGS1"].network_dili_score =
          Frac(network_df[1].n_risk_targets + network_df[2].n_risk_targets, 1)
    /\ combined_scores["PTGS2"].network_dili_score = Zero

NormalizedFeatures ==
    {<<"total_dili_weight", "total_dili_weight_normalized">>,
     <<"high_risk_drug_count", "high_risk_drug_count_normalized">>,
     <<"network_dili_score", "network_dili_score_normalized">>}

\* No feature is missing or negative
NonNegativeFeatures ==
    \A f \in NormalizedFeatures, target \in DOMAIN combined_scores :
        Within(combined_scores[target][f[1]], Zero, combined_scores[target][f[1]])

BlendOf(target) ==
    FAdd(combined_scores[target].total_dili_weight_normalized,
         FMul(alpha, combined_scores[target].network_dili_score_normalized))

\* dili_risk_score is the blend, divided by the largest blend when that is > 0
ScoreIsBlend ==
    rpc \in {"done", "again"} =>
        \A target \in DOMAIN combined_scores :
            \E max_blend \in {SeriesMax({BlendOf(t) : t \in DOMAIN combined_scores})} :
                combined_scores[target].dili_risk_score =
                    IF max_blend[1] > 0 THEN FDiv(BlendOf(target), max_blend)
                    ELSE BlendOf(target)

\* The call on a table that differs only in high_risk_drug_count (the step
\* to "again") gives the same scores and categories
CountChangesNothing ==
    rpc' = "again" =>
        \A target \in DOMAIN combined_scores :
            /\ combined_scores'[target].total_dili_weight =
                  combined_scores[target].total_dili_weight
            /\ combined_scores'[target].network_dili_score =
                  combined_scores[target].network_dili_score
            /\ combined_scores'[target].dili_risk_score =
                  combined_scores[target].dili_risk_score
            /\ combined_scores'[target].risk_category =
                  combined_scores[target].risk_category

\* C10: the final score and the risk category depend only on
\* total_dili_weight, network_dili_score and alpha: tables that agree on
\* these and differ in high_risk_drug_count get the same dili_risk_score and
\* risk_category for every target, the blend being
\* total_dili_weight_normalized + alpha * network_dili_score_normalized.
C10_IndependentOfHighRiskCount ==
    []ScoreIsBlend /\ [][CountChangesNothing]_vars

\* Scored again with other high-risk counts, one of them missing, for a Low
\* and a High target
C10_Witness ==
    /\ rpc = "again"
    /\ DOMAIN combined_scores = {"PTGS1", "PTGS2"}
    /\ combined_scores["PTGS1"].high_risk_drug_count = NaN
    /\ combined_scores["PTGS1"].high_risk_drug_count_normalized = NaN
    /\ combined_scores["PTGS2"].high_risk_drug_count_normalized = One
    /\ combined_scores["PTGS1"].risk_category = "High"
    /\ combined_scores["PTGS2"].risk_category = "Low"
    /\ alpha = Frac(1, 2)

\* The targets of one category
Bucket(category) ==
    {target \in DOMAIN combined_scores :
        combined_scores[target].risk_category = category}

\* The third of [mn, mx] a score lies in, the middle one when mn = mx
ThirdOf(x, mn, mx) ==
    IF mn = mx THEN "Medium"
    ELSE IF FLe(FMul(Frac(3, 1), FSub(x, mn)), FSub(mx, mn)) THEN "Low"
    ELSE IF FLe(FMul(Frac(3, 1), FSub(x, mn)), FMul(Frac(2, 1), FSub(mx, mn))) THEN "Medium"
    ELSE "High"

TertilesCollapse ==
    \E i, j \in 1..4 :
        /\ i < j
        /\ Quantile(ScoresOf(combined_scores), i - 1) = Quantile(ScoresOf(combined_scores), j - 1)

\* C11: for every non-empty table of final scores the categorisation gives
\* every target exactly one of Low, Medium, High, the three bucket sizes sum
\* to the number of targets, and when the tertile cut-points collapse the
\* categories are those of three equal-width bins over [min, max].
C11_EveryTargetCategorized ==
    rpc = "categorized" =>
        /\ \A target \in DOMAIN combined_scores :
              combined_scores[target].risk_category \in {"Low", "Medium", "High"}
        /\ Cardinality(Bucket("Low")) + Cardinality(Bucket("Medium"))
              + Cardinality(Bucket("High")) = Cardinality(DOMAIN combined_scores)
        /\ TertilesCollapse =>
              \A target \in DOMAIN combined_scores :
                  combined_scores[target].risk_category =
                      ThirdOf(combined_scores[target].dili_risk_score,
                              SeriesMin(Column(combined_scores, "dili_risk_score")),
                              SeriesMax(Column(combined_scores, "dili_risk_score")))

\* Scores 0, 1/2, 1/2, 1: the cut-points 0, 1/2, 1/2, 1 collapse and the
\* equal-width bins give Low, Medium, Medium, High
C11_Witness ==
    /\ rpc = "categorized"
    /\ Cardinality(DOMAIN combined_scores) = 4
    /\ TertilesCollapse
    /\ Cardinality(Bucket("Low")) = 1
    /\ Cardinality(Bucket("Medium")) = 2
    /\ Cardinality(Bucket("High")) = 1
    /\ \A target \in Bucket("Medium") :
          combined_scores[target].dili_risk_score = Frac(1, 2)

StageOrder == <<"acquisition", "etl", "risk scoring", "validation">>

LaterArtifacts ==
    {"drug_target_table", "dili_risk_scores", "validation_results",
     "validation_report"}

\* C12: main runs the stages in the order acquisition, ETL, risk scoring,
\* validation, and once a step has returned an empty or absent result for a
\* missing input, no further stage is started and no later-stage artifact is
\* written.
C12_HaltsOnMissingInput ==
    /\ stages_started = SubSeq(StageOrder, 1, Len(stages_started))
    /\ "acquire_drug_target_associations" \in absent_results =>
          /\ stages_started = <<"acquisition">>
          /\ \A file \in LaterArtifacts : files[file] # "current"
    /\ "build_drug_target_table" \in absent_results =>
          /\ Len(stages_started) <= 2
          /\ \A file \in LaterArtifacts : files[file] # "current"

\* The entry another execution gives a source name when it iterates the
\* name's variations in `order`: the candidate, or None below the threshold
EntryWith(fda_drug, order) ==
    LET r == MatchOne(Normalized(fda_drug), order, ot_variations_dict,
                      ot_normalized_dict, ot_drugs)
    IN IF FGe(r.score, threshold) THEN r.match ELSE None

ReturnedEntry(fda_drug) ==
    IF fda_drug \in DictKeys(matches) THEN DictGet(matches, fda_drug) ELSE None

\* C13: matching is a deterministic function of its inputs: an execution with
\* the same source list, candidate list and threshold returns the same
\* mapping, whatever order the set of a name's variations is iterated in.
C13_SameMappingEveryExecution ==
    mpc = "done" =>
        \A i \in DOMAIN fda_drugs :
            \A order \in Orders(create_drug_name_variations(fda_drugs[i])) :
                EntryWith(fda_drugs[i], order) = ReturnedEntry(fda_drugs[i])

SaltWords == UNION {{suffixes[k][j] : j \in DOMAIN suffixes[k]} : k \in DOMAIN suffixes}

HasWholeWord(s, w) ==
    \E i \in 1..Len(s) :
        /\ WordBoundary(s, i)
        /\ MatchAt(s, i, w)
        /\ WordBoundary(s, i + Len(w))

Canonical(s) ==
    /\ \A i \in DOMAIN s : s[i] \notin UpperLetters
    /\ \A i \in DOMAIN s : IsWordChar(s[i]) \/ IsSpace(s[i])
    /\ s # <<>> => ~IsSpace(s[1]) /\ ~IsSpace(s[Len(s)])
    /\ \A i \in 1..(Len(s) - 1) : ~(IsSpace(s[i]) /\ IsSpace(s[i + 1]))
    /\ \A w \in SaltWords : ~HasWholeWord(s, w)

\* C14: the output of normalize_drug_name is in canonical form: no uppercase
\* letter, no punctuation, no leading or trailing whitespace, no run of two
\* or more whitespace characters, none of the salt/hydrate words as a whole
\* word; the empty input gives the empty string.
C14_OutputIsCanonical ==
    npc \in {"once", "twice"} =>
        /\ Canonical(normalized)
        /\ name = <<>> => normalized = <<>>

\* The distinct drugs of a target in the validation table
DrugsOfTarget(target) ==
    {val_df[i].fda_drug_name :
        i \in {k \in DOMAIN val_df : val_df[k].ot_target_symbol = target}}

\* The first row of a (drug, target) pair
FirstRow(drug, target) ==
    val_df[Min({i \in DOMAIN val_df :
                  /\ val_df[i].fda_drug_name = drug
                  /\ val_df[i].ot_target_symbol = target})]

\* The fraction of the distinct drugs of a target whose (first) row has
\* column = value
DrugFraction(target, column, value) ==
    Frac(Cardinality({drug \in DrugsOfTarget(target) :
                         FirstRow(drug, target)[column] = value}),
         Cardinality(DrugsOfTarget(target)))

\* C15: compute_approval_rates gives each target the number of its distinct
\* drugs with approval_status 'approved' (with 'No-DILI-Concern' when the
\* table has no approval_status column) over the number of its distinct
\* drugs; compute_withdrawal_rates gives the number of its distinct drugs
\* flagged withdrawn over the number of its distinct drugs, and no rates
\* without a withdrawn column; every rate lies in [0,1].  A pair that occurs
\* in several rows counts once, with the values of its first row.
C15_RatesOverDistinctDrugs ==
    /\ vpc \in {"approval", "rates"} =>
          /\ DOMAIN approval_rates = GroupKeys(val_df)
          /\ \A target \in DOMAIN approval_rates :
                /\ approval_rates[target].approval_rate =
                      IF "approval_status" \in val_columns
                      THEN DrugFraction(target, "approval_status", "approved")
                      ELSE DrugFraction(target, "fda_dili_concern", "No-DILI-Concern")
                /\ Within(approval_rates[target].approval_rate, Zero, One)
    /\ vpc \in {"withdrawal", "rates"} =>
          IF "withdrawn" \in val_columns
          THEN /\ DOMAIN withdrawal_rates = GroupKeys(val_df)
               /\ \A target \in DOMAIN withdrawal_rates :
                     /\ withdrawal_rates[target].withdrawal_rate =
                           DrugFraction(target, "withdrawn", TRUE)
                     /\ Within(withdrawal_rates[target].withdrawal_rate, Zero, One)
          ELSE withdrawal_rates = <<>>

\* Two rows of the pair (Aspirin, PTGS1), approved and withdrawn in the
\* first: one drug, approval rate 1 and withdrawal rate 1
C15_Witness ==
    /\ vpc = "rates"
    /\ val_columns = {"approval_status", "withdrawn"}
    /\ Len(val_df) = 2
    /\ EvidenceKey(val_df[1]) = <<"Aspirin", "PTGS1">>
    /\ EvidenceKey(val_df[2]) = <<"Aspirin", "PTGS1">>
    /\ val_df[1].approval_status = "approved"
    /\ val_df[1].withdrawn
    /\ val_df[2].approval_status = "withdrawn"
    /\ approval_rates["PTGS1"].total_drugs = 1
    /\ approval_rates["PTGS1"].approval_rate = One
    /\ withdrawal_rates["PTGS1"].withdrawal_rate = One

\* The rows of the validation table for one target
ValidationRowsOf(target) ==
    {i \in DOMAIN validation_df : validation_df[i].ot_target_symbol = target}

ScoredTargets == {risk_scores[i].ot_target_symbol : i \in DOMAIN risk_scores}

\* C16: the validation table has exactly one row for each target that has
\* both a risk score and an approval rate and no other row; a target
\* without a withdrawal rate keeps its row, with a missing withdrawal rate;
\* each correlation column holds one value on every row.
C16_OneRowPerCommonTarget ==
    vpc \in {"done", "raised", "validated"} =>
        /\ \A target \in ValidationTargets :
              Cardinality(ValidationRowsOf(target)) =
                 IF target \in ScoredTargets \cap DOMAIN approval_rates THEN 1 ELSE 0
        /\ \A i \in DOMAIN validation_df :
              /\ validation_df[i].approval_rate =
                    approval_rates[validation_df[i].ot_target_symbol].approval_rate
              /\ IF DOMAIN withdrawal_rates = {}
                 THEN "withdrawal_rate" \notin DOMAIN validation_df[i]
                 ELSE validation_df[i].withdrawal_rate =
                         IF validation_df[i].ot_target_symbol \in DOMAIN withdrawal_rates
                         THEN withdrawal_rates[validation_df[i].ot_target_symbol].withdrawal_rate
                         ELSE NaN
        /\ \A i, j \in DOMAIN validation_df :
              /\ validation_df[i].correlation_with_approval =
                    validation_df[j].correlation_with_approval
              /\ "correlation_with_withdrawal" \in DOMAIN validation_df[i] =>
                    validation_df[i].correlation_with_withdrawal =
                       validation_df[j].correlation_with_withdrawal

\* Three scored targets, approval rates for PTGS1 and PTGS2, a withdrawal
\* rate for PTGS2 only: two rows, PTGS1 with a missing withdrawal rate, and
\* a correlation with the approval rate on both
C16_Witness ==
    /\ vpc = "validated"
    /\ ScoredTargets = ValidationTargets
    /\ DOMAIN approval_rates = {"PTGS1", "PTGS2"}
    /\ DOMAIN withdrawal_rates = {"PTGS2"}
    /\ Len(validation_df) = 2
    /\ validation_df[1].ot_target_symbol = "PTGS1"
    /\ IsNaN(validation_df[1].withdrawal_rate)
    /\ validation_df[1].correlation_with_approval = <<-1, 1, 1>>
    /\ validation_df[2].correlation_with_approval = <<-1, 1, 1>>

\* The serial matcher has handled a source name: the name, and its
\* similarity to candidate j
Handled == mpc \in {"loop", "done"} /\ mi > 1

HandledName == fda_drugs[mi - 1]

RatioTo(j) == Similarity(Normalized(HandledName), Normalized(ot_drugs[j]))

\* C17: a fuzzy match that is accepted (its score reaches the threshold) is a
\* best-scoring candidate of the whole candidate list: no candidate has a
\* higher similarity to the source name.
C17_AcceptedFuzzyIsBest ==
    (Handled /\ tier = "fuzzy" /\ FGe(best_score, threshold)) =>
        \A j \in DOMAIN ot_drugs : FLe(RatioTo(j), best_score)

LowerVariations(drug_name) ==
    {Lower(v) : v \in create_drug_name_variations(drug_name)}

\* The candidates that share a variation with the handled name, ignoring
\* case, and those with its normalized name
Sharing ==
    {j \in DOMAIN ot_drugs :
        LowerVariations(HandledName) \cap LowerVariations(ot_drugs[j]) # {}}

NormalizedHits ==
    {j \in DOMAIN ot_drugs : Normalized(ot_drugs[j]) = Normalized(HandledName)}

\* C18: of several candidates with the same score the one first in the
\* candidate list is returned: the first that shares a variation (or the
\* normalized name) in the exact steps, the first with the best ratio in the
\* fuzzy step.
C18_FirstCandidateWinsTies ==
    Handled =>
        /\ tier = "exact" => best_match = ot_drugs[Min(Sharing)]
        /\ tier = "normalized" => best_match = ot_drugs[Min(NormalizedHits)]
        /\ tier = "fuzzy" =>
              best_match = ot_drugs[Min({j \in DOMAIN ot_drugs : RatioTo(j) = best_score})]

\* C19: a source name that shares a variation, ignoring case, with some
\* candidate is matched with score 1.0 to a candidate sharing a variation
\* with it, whatever the threshold, and without the fuzzy step; the fuzzy
\* step runs only for a name with no shared variation and no candidate of
\* the same normalized name.
C19_ExactBeforeFuzzy ==
    Handled =>
        /\ Sharing # {} =>
              /\ tier = "exact"
              /\ best_score = One
              /\ \E j \in Sharing : ot_drugs[j] = best_match
              /\ ReturnedEntry(HandledName) = best_match
        /\ tier \in {"fuzzy", "none"} => Sharing = {} /\ NormalizedHits = {}

\* 'Acetaminophen' against ['abce', 'paracetamol'] with threshold 1.0: the
\* abbreviation is shared, the entry is 'paracetamol'
C19_Witness ==
    /\ mpc = "done"
    /\ fda_drugs = <<Acetaminophen>>
    /\ ot_drugs = << <<"a","b","c","e">>, n_paracetamol >>
    /\ threshold = One
    /\ Sharing = {2}
    /\ tier = "exact"
    /\ matches = << <<Acetaminophen, n_paracetamol>> >>

\* The distinct Most-DILI-Concern drugs of a target in the deduplicated table
MostDiliDrugs(target) ==
    {drug_target_dedup[i].fda_drug_name :
        i \in {k \in DOMAIN drug_target_dedup :
                  /\ drug_target_dedup[k].ot_target_symbol = target
                  /\ drug_target_dedup[k].fda_dili_concern = "Most-DILI-Concern"}}

\* C20: high_risk_drug_count of every target is the number of its distinct
\* Most-DILI-Concern drugs, the number 0 (not a missing value) for a target
\* that has none.
C20_HighRiskCountIsNumber ==
    epc = "done" =>
        \A target \in DOMAIN direct_evidence :
            direct_evidence[target].high_risk_drug_count =
                Frac(Cardinality(MostDiliDrugs(target)), 1)

BucketSizes == {Cardinality(Bucket(category)) : category \in {"Low", "Medium", "High"}}

\* C21: when the tertile cut-points are distinct (quantile binning succeeds,
\* no fallback), the sizes of the Low, Medium and High buckets differ from
\* each other by at most one target.
C21_BucketsEqualFrequency ==
    (rpc = "categorized" /\ ~TertilesCollapse) =>
        \A a, b \in BucketSizes : a - b <= 1

\* The sign named by a line of the report agrees with the correlation r
\* (<<sign, numerator, denominator of r^2>>, CorrNaN when undefined)
NamesTheSign(line, r) ==
    /\ line = "Negative correlation" => r # CorrNaN /\ r[1] < 0
    /\ line = "Positive correlation" => r # CorrNaN /\ r[1] > 0

\* C22: the qualitative line the report gives for the approval and for the
\* withdrawal correlation names the sign the correlation has: 'Negative
\* correlation' only for a value < 0, 'Positive correlation' only for a
\* value > 0, also for the value 0 and for an undefined correlation.
C22_ReportNamesActualSign ==
    report # <<>> =>
        /\ NamesTheSign(report.approval, validation_df[1].correlation_with_approval)
        /\ "withdrawal" \in DOMAIN report =>
              NamesTheSign(report.withdrawal, validation_df[1].correlation_with_withdrawal)

\* C23: when the drug-target table has no withdrawn column, run_validation
\* completes without raising: the validation table has a row for every
\* target with a risk score and an approval rate, with the approval
\* correlation, and the report is written.
C23_CompletesWithoutWithdrawn ==
    (vpc \in {"done", "raised"} /\ "withdrawn" \notin val_columns) =>
        /\ vpc = "done"
        /\ report # <<>>
        /\ \A target \in ScoredTargets \cap DOMAIN approval_rates :
              \E i \in DOMAIN validation_df :
                 /\ validation_df[i].ot_target_symbol = target
                 /\ "correlation_with_approval" \in DOMAIN validation_df[i]

\* C24: in the pipeline of main(), for every target of the validation table
\* total_drugs, the denominator of both rates, equals the drug_count of the
\* risk-score table, also when the drug-target table repeats a
\* (drug, target) pair.
C24_SameDrugCounts ==
    (rpc = "saved" /\ vpc \in {"done", "raised"}) =>
        \A i \in DOMAIN validation_df :
            validation_df[i].total_drugs = validation_df[i].drug_count

\* C30: for a drug-target table written by the ETL (withdrawn is
\* approval_status == 'withdrawn') the approval rate and the withdrawal rate
\* of every target have the same denominator and sum to at most 1.
C30_RatesSumAtMostOne ==
    (rpc = "saved" /\ vpc \in {"done", "raised"}) =>
        /\ DOMAIN withdrawal_rates = DOMAIN approval_rates
        /\ \A target \in DOMAIN approval_rates :
              /\ approval_rates[target].total_drugs = withdrawal_rates[target].total_drugs
              /\ Within(FAdd(approval_rates[target].approval_rate,
                             withdrawal_rates[target].withdrawal_rate), Zero, One)

\* PTGS1 has an approved and a withdrawn drug: both rates are 1/2
C30_Witness ==
    /\ rpc = "saved"
    /\ vpc = "done"
    /\ Len(val_df) = 2
    /\ approval_rates["PTGS1"].total_drugs = 2
    /\ approval_rates["PTGS1"].approval_rate = Frac(1, 2)
    /\ withdrawal_rates["PTGS1"].withdrawal_rate = Frac(1, 2)

\* The distinct target symbols of the association table
AssociationTargets ==
    {drug_target_df[i].ot_target_symbol : i \in DOMAIN drug_target_df}

DirectEvidenceColumns ==
    {"drug_count", "total_dili_weight", "high_risk_drug_count", "dili_risk_ratio",
     "avg_dili_weight"}

\* The scored table has the direct-evidence values of every target
KeepsDirectEvidence ==
    \A target \in DOMAIN combined_scores :
        \A column \in DirectEvidenceColumns :
            combined_scores[target][column] = direct_evidence[target][column]

\* C25: for a non-empty association table the tables after direct-evidence
\* aggregation, after network scoring and after the final risk calculation
\* are indexed by exactly the distinct target symbols of the association
\* table, and the network scoring (and the risk calculation after it)
\* leaves the direct-evidence columns of every target as they were.
C25_TargetSetPreserved ==
    /\ epc = "done" => DOMAIN direct_evidence = AssociationTargets
    /\ kpc = "done" =>
          /\ DOMAIN combined_scores = AssociationTargets
          /\ KeepsDirectEvidence
          /\ \A target \in DOMAIN combined_scores :
                "network_dili_score" \in DOMAIN combined_scores[target]
    /\ rpc = "done" =>
          \A target \in DOMAIN combined_scores :
              "dili_risk_score" \in DOMAIN combined_scores[target]

\* Two targets, one of them without a Most-DILI-Concern drug, scored with a
\* network row that reaches a target through the mapping
C25_Witness ==
    /\ rpc = "done"
    /\ AssociationTargets = {"PTGS1", "PTGS2"}
    /\ DOMAIN combined_scores = {"PTGS1", "PTGS2"}
    /\ IsNaN(combined_scores["PTGS1"].high_risk_drug_count)
    /\ \E target \in DOMAIN combined_scores :
          combined_scores[target].network_dili_score # Zero

\* C26: a match made by the exact-variation or the normalized-exact step
\* rests on a non-empty variation that the source name and the matched
\* candidate share; two names that only share the empty normalized form are
\* not matched by these steps.
C26_NoMatchThroughEmptyName ==
    (Handled /\ tier \in {"exact", "normalized"}) =>
        (LowerVariations(HandledName) \cap LowerVariations(best_match)) \ {<<>>} # {}

\* The concern classes the FDA table gives a name
ConcernsOf(fda_name) ==
    {fda_dilirank_df[k].vDILIConcern : k \in FdaRowsOf(fda_name)}

\* C27: every matched FDA name whose OpenTargets name has a row in the
\* drug-target registry appears as fda_drug_name in the mapping, with each
\* target of that OpenTargets name and with a class of its own FDA rows,
\* also when two FDA names are matched to the same OpenTargets name.
C27_NoMatchedDrugLost ==
    cpc = "done" =>
        \A i \in DOMAIN drug_matches :
            \A k \in DOMAIN ot_drug_target_df :
                ot_drug_target_df[k].drug_name = drug_matches[i][2] =>
                    \E r \in DOMAIN clean_mapping_df :
                        /\ clean_mapping_df[r].fda_drug_name = drug_matches[i][1]
                        /\ clean_mapping_df[r].target_symbol =
                              ot_drug_target_df[k].target_symbol
                        /\ ConcernsOf(drug_matches[i][1]) # {} =>
                              clean_mapping_df[r].fda_dili_concern
                                  \in ConcernsOf(drug_matches[i][1])

\* The place of a category in the order Low < Medium < High
Rank(category) ==
    CHOOSE i \in 1..3 : <<"Low", "Medium", "High">>[i] = category

\* C28: the categories are monotone in the final score: a target whose score
\* is at most that of another has a category at most that of the other, so
\* equal scores share a category, with quantile bins and with the
\* equal-width fallback.
C28_CategoriesMonotone ==
    rpc = "categorized" =>
        \A a, b \in DOMAIN combined_scores :
            FLe(combined_scores[a].dili_risk_score, combined_scores[b].dili_risk_score)
                => Rank(combined_scores[a].risk_category)
                      <= Rank(combined_scores[b].risk_category)

\* Quantile bins with all three categories used and two targets of equal
\* score in one of them
C28_Witness ==
    /\ rpc = "categorized"
    /\ ~TertilesCollapse
    /\ \A category \in {"Low", "Medium", "High"} : Bucket(category) # {}
    /\ \E a, b \in DOMAIN combined_scores :
          /\ a # b
          /\ combined_scores[a].dili_risk_score = combined_scores[b].dili_risk_score
          /\ combined_scores[a].risk_category = combined_scores[b].risk_category

\* C29: every target whose score is the largest score of the table is in
\* category High, also in a table of one target and in a table whose scores
\* are all equal.
C29_MaximumIsHigh ==
    rpc = "categorized" =>
        \A target \in DOMAIN combined_scores :
            combined_scores[target].dili_risk_score =
                SeriesMax(RangeOf(ScoresOf(combined_scores)))
            => combined_scores[target].risk_category = "High"

=============================================================================
